---- MODULE Spec2Model ----
(***************************************************************************)
(* The task-partitioned loss-aggregation pipeline of                       *)
(* openquake/calculators/event_based_risk.py: the partitioner gen_args,    *)
(* the tasks event_based_risk (with aggregate_losses and                   *)
(* _build_agg_loss_table), start_ebrisk and ebrisk, the reducer agg_dicts  *)
(* and the calculator's pre_execute, execute and post_execute.             *)
(*                                                                         *)
(* Conventions.                                                            *)
(*  - Rows of gmf_data are numbered from 0 as in the code; a slice         *)
(*    [start, stop) reads rows start+1 .. stop of the TLA+ sequence.       *)
(*  - Asset ordinals are the indices 1..A of assetcol (the code counts     *)
(*    them from 0); loss type indices lni are 0..L-1 as in the code.       *)
(*  - maxweight = len(eids) / ct is a float in the code; it is kept as     *)
(*    the exact fraction [num, den] and compared by cross-multiplying.     *)
(*  - Byte sizes of the capacity guard are counted in words of 4 bytes     *)
(*    (every size of the guard is a multiple of 4), so that 2^32 bytes     *)
(*    is 2^30 words and fits the model checker's integers.                 *)
(*  - Losses and variances are natural numbers ("exact arithmetic");       *)
(*    variances are perfect squares so that numpy.sqrt is exact.           *)
(*  - A ratio (avg_ratio, a scaled loss) is the exact fraction [num, den]. *)
(***************************************************************************)
EXTENDS Integers, Sequences, FiniteSets, TLC

\* ------------------------------------------------------------- bounds

\* most rows of gmf_data in the partitioner's specification
MaxRows == 4
\* event ids are 1..MaxEid
MaxEid == 3
\* concurrent_tasks is drawn from 0..MaxCT
MaxCT == 3
\* the number of celery tasks of a job of the legacy calculator
MaxTasks == 2

\* ---------------------------------------------------------- constants

\* event_based_risk.py:41, in words of 4 bytes: 2^32 bytes = 2^30 words
TWO32 == 1073741824

\* ---------------------------------------------------------- variables

VARIABLES
    oq,             \* oqparam: concurrent_tasks, asset_correlation,
                    \* ebrisk_maxsize, loss_names, avg_losses, collect_rlzs,
                    \* calculation_mode, investigation_time
    E,              \* self.E, the number of events of the run
    R,              \* self.R, the number of realizations of the run
    weights,        \* datastore['weights'], one per realization
    assetcol,       \* the exposure: assets [taxonomy, site_id, kid, ...]
    aggkey,         \* self.aggkey, the aggregation keys (K = its length)
    gmf_data,       \* datastore['gmf_data']: rows [eid, sid, gmv]
    ruptures,       \* datastore['ruptures']: per rupture, the GMF rows
                    \* its computer gives (none below min_iml)
    pc,             \* where the calculator is: pre_execute, execute, ...
    param,          \* self.param, handed to every task
    gen,            \* the frame of the loop of execute that feeds the
                    \* Starmap: the generator gen_args, or the loop over
                    \* gen_rupture_getters
    yielded,        \* the slices gen_args has yielded (each with param)
    tasks,          \* per submitted task: its state and results
    agg_loss_table, \* datastore['agg_loss_table'], a column store
    avg_losses,     \* self.avg_losses, the dense (A, R, L) accumulator
    gmf_info,       \* datastore['gmf_info']
    agg_losses,     \* datastore['agg_losses-rlzs'], a (K+1, R, L) array
    dsets,          \* the names of the datasets in the datastore that
                    \* the calculator tests for: gmf_data, agg_losses-rlzs
    assigned,       \* history: the pairs <<task, key>> of the items of
                    \* param a task function has assigned
    log,            \* the warnings logged by post_execute
    error,          \* the exception that ended the run, or "none"
    units,          \* the legacy calculator: per celery task event_based,
                    \* the list of its calculation units
    celery,         \* per celery task event_based: where it is, the units
                    \* done, the event_loss_table of do_event_based
    inbox,          \* the completion messages signal_task_complete has
                    \* sent and the supervisor has not yet handled
    event_loss_table,   \* EventBasedRiskCalculator.event_loss_table
    received,       \* history: the tasks whose message
                    \* task_completed_hook was called with, in order
    hook_error      \* the exception task_completed_hook raised, or "none"

conf == <<oq, E, R, weights, assetcol, aggkey, gmf_data, ruptures>>
store == <<agg_loss_table, avg_losses, gmf_info, agg_losses, dsets>>
side == <<assigned, log>>
legacy == <<units, celery, inbox, event_loss_table, received, hook_error>>
modern == <<oq, E, R, weights, assetcol, aggkey, gmf_data, ruptures, pc,
            param, gen, yielded, tasks, agg_loss_table, avg_losses, gmf_info,
            agg_losses, dsets, assigned, log, error>>
vars == <<oq, E, R, weights, assetcol, aggkey, gmf_data, ruptures, pc,
          param, gen, yielded, tasks, agg_loss_table, avg_losses, gmf_info,
          agg_losses, dsets, assigned, log, error, units, celery, inbox,
          event_loss_table, received, hook_error>>

\* --------------------------------------------------- general helpers

RECURSIVE SumSeq(_)
SumSeq(s) == IF s = <<>> THEN 0 ELSE Head(s) + SumSeq(Tail(s))

RECURSIVE Concat(_)
Concat(ss) == IF ss = <<>> THEN <<>> ELSE Head(ss) \o Concat(Tail(ss))

Range(s) == {s[i] : i \in DOMAIN s}

\* all sequences over S of length at most n
SeqUpTo(S, n) == UNION {[1..k -> S] : k \in 0..n}

\* the order of pandas' sorted group keys, on pairs
PairLess(a, b) == a[1] < b[1] \/ (a[1] = b[1] /\ a[2] < b[2])

\* a finite set of pairs as the sequence sorted by PairLess
RECURSIVE SortPairs(_)
SortPairs(S) ==
    IF S = {} THEN <<>>
    ELSE LET m == CHOOSE x \in S : \A y \in S \ {x} : PairLess(x, y)
         IN  <<m>> \o SortPairs(S \ {m})

\* a finite set of integers as the increasing sequence
SortInts(S) ==
    LET ps == SortPairs({<<x, 0>> : x \in S})
    IN  [i \in DOMAIN ps |-> ps[i][1]]

\* numpy.sqrt on a perfect square
Sqrt(v) == CHOOSE r \in 0..v : r * r = v

\* no job of the legacy calculator
NoLegacyJob ==
    /\ units = <<>>
    /\ celery = <<>>
    /\ inbox = {}
    /\ event_loss_table = <<>>
    /\ received = <<>>
    /\ hook_error = "none"

\* ------------------------------------------------------------ gen_args

\* ct = self.oqparam.concurrent_tasks or 1
ct == IF oq.concurrent_tasks = 0 THEN 1 ELSE oq.concurrent_tasks

\* eids = self.datastore['gmf_data/eid'][:]
eids == [i \in DOMAIN gmf_data |-> gmf_data[i].eid]

\* maxweight = len(eids) / ct, a float: the exact fraction
maxweight == [num |-> Len(eids), den |-> ct]

\* the mutant: the slice is closed as soon as the weight reaches maxweight
ExceedsOrEqual(weight, mw) == weight * mw.den >= mw.num

\* weight > maxweight, for an integer weight and the fraction maxweight
Exceeds(weight, mw) == weight * mw.den > mw.num

\* the mutant: the groups are cut where the parity of the id changes, so
\* that the values of the ids matter
RECURSIVE RunLenParity(_, _)
RunLenParity(s, i) ==
    IF i + 2 <= Len(s) /\ s[i + 2] % 2 = s[i + 1] % 2
    THEN 1 + RunLenParity(s, i + 1)
    ELSE 1

\* the mutant: each row taken as a group of its own
RunLenSingle(s, i) == 1

\* itertools.groupby(eids): the length of the run of equal ids that
\* starts at (0-based) row i
RECURSIVE RunLen(_, _)
RunLen(s, i) ==
    IF i + 2 <= Len(s) /\ s[i + 2] = s[i + 1]
    THEN 1 + RunLen(s, i + 1)
    ELSE 1

\* slice(start, stop)
Slice(start, stop) == [start |-> start, stop |-> stop]

\* Starmap submits one task per yielded pair
NewTask == [state |-> "submitted", loss_by_EK1 |-> <<>>, results |-> <<>>]

\* yield slice(start, stop), self.param
YieldSlice(start, stop) ==
    /\ yielded' = Append(yielded, Slice(start, stop))
    /\ tasks' = Append(tasks, NewTask)

\* one turn of `for eid, group in itertools.groupby(eids)`
GenArgsLoop ==
    /\ pc = "execute"
    /\ "gmf_data" \in dsets
    /\ gen.pc = "loop"
    /\ gen.stop < Len(eids)
    /\ LET nsites == RunLen(eids, gen.stop)
           stop   == gen.stop + nsites
           weight == gen.weight + nsites
       IN  IF Exceeds(weight, maxweight)
           THEN /\ YieldSlice(gen.start, stop)
                /\ gen' = [gen EXCEPT !.stop = stop, !.weight = 0,
                                      !.start = stop]
           ELSE /\ UNCHANGED <<yielded, tasks>>
                /\ gen' = [gen EXCEPT !.stop = stop, !.weight = weight]
    /\ UNCHANGED <<legacy, conf, pc, param, store, side, error>>

\* the mutant: the trailing slice is yielded whatever the weight
GenArgsEndAlways ==
    /\ pc = "execute"
    /\ "gmf_data" \in dsets
    /\ gen.pc = "loop"
    /\ gen.stop = Len(eids)
    /\ YieldSlice(gen.start, gen.stop)
    /\ gen' = [gen EXCEPT !.pc = "done"]
    /\ UNCHANGED <<legacy, conf, pc, param, store, side, error>>

\* the mutant: the trailing `if weight: yield` left out
GenArgsEndNoTail ==
    /\ pc = "execute"
    /\ "gmf_data" \in dsets
    /\ gen.pc = "loop"
    /\ gen.stop = Len(eids)
    /\ gen' = [gen EXCEPT !.pc = "done"]
    /\ UNCHANGED <<legacy, conf, pc, param, store, side, error, yielded, tasks>>

\* the loop is exhausted: `if weight: yield slice(start, stop), self.param`
GenArgsEnd ==
    /\ pc = "execute"
    /\ "gmf_data" \in dsets
    /\ gen.pc = "loop"
    /\ gen.stop = Len(eids)
    /\ IF gen.weight # 0
       THEN YieldSlice(gen.start, gen.stop)
       ELSE UNCHANGED <<yielded, tasks>>
    /\ gen' = [gen EXCEPT !.pc = "done"]
    /\ UNCHANGED <<legacy, conf, pc, param, store, side, error>>

\* start = stop = weight = 0
GenInit == [pc |-> "loop", start |-> 0, stop |-> 0, weight |-> 0]

\* ------------------------------------------------------ the risk model

\* len(self.aggkey), param['K']
NumKeys == Len(aggkey)

\* crmodel.oqparam.loss_names and the index lni of a loss name
LossIndex(ln) == (CHOOSE i \in DOMAIN oq.loss_names : oq.loss_names[i] = ln) - 1

\* rlz_id[eid]: the realization of an event; the events are dealt to the
\* realizations in turn
rlz_id(eid) == (eid - 1) % Len(weights)

\* crmodel.get_output(taxo, asset_df, gmf_df, ...)[ln]: one loss record
\* per hazard row and asset of the group on the row's site, with loss
\* value * gmv and standard deviation sd * gmv; an asset without value for
\* the loss type gives no record.  asset_df is the sequence of the group's
\* asset ordinals.
RECURSIVE get_output(_, _, _)
get_output(asset_df, gmf_df, ln) ==
    IF gmf_df = <<>> THEN <<>>
    ELSE LET row == Head(gmf_df)
             Hit(a) == /\ assetcol[a].site_id = row.sid
                       /\ assetcol[a].value[ln] > 0
             Rec(a) == [eid |-> row.eid, aid |-> a,
                        loss |-> assetcol[a].value[ln] * row.gmv,
                        variance |-> (assetcol[a].sd[ln] * row.gmv)
                                     * (assetcol[a].sd[ln] * row.gmv)]
             hit == SelectSeq(asset_df, Hit)
         IN  [i \in DOMAIN hit |-> Rec(hit[i])]
             \o get_output(asset_df, Tail(gmf_df), ln)

\* ---------------------------------------------------- aggregate_losses

\* general.AccumDict(accum=numpy.zeros(2, F32)): the entries [k, v] in
\* the order of insertion, v = <<loss, x>>
Keys(d) == {d[i].k : i \in DOMAIN d}
Value(d, k) == d[CHOOSE i \in DOMAIN d : d[i].k = k].v

\* lbe[k] += F32([loss, x]); a missing key starts from zeros(2)
AccumAdd(d, k, v) ==
    IF k \in Keys(d)
    THEN [i \in DOMAIN d |->
            IF d[i].k = k
            THEN [k |-> k, v |-> <<d[i].v[1] + v[1], d[i].v[2] + v[2]>>]
            ELSE d[i]]
    ELSE Append(d, [k |-> k, v |-> v])

\* AccumDict.__iadd__: other's entries are added key by key
RECURSIVE AccumDict_iadd(_, _)
AccumDict_iadd(d, other) ==
    IF other = <<>> THEN d
    ELSE AccumDict_iadd(AccumAdd(d, Head(other).k, Head(other).v),
                        Tail(other))

\* x = numpy.sqrt(alt.variance) if correl else alt.variance
XOf(variance, correl) ==
    IF correl # 0 THEN Sqrt(variance) ELSE variance

\* the sums (loss, x) of a group of a groupby(...).sum()
GroupSum(sel, correl) ==
    <<SumSeq([i \in DOMAIN sel |-> sel[i].loss]),
      SumSeq([i \in DOMAIN sel |-> XOf(sel[i].variance, correl)])>>

\* the mutant: groupby('kid') in place of groupby(['eid', 'kid']); the
\* entries carry the event id of the first record
ExplicitGroupsByKid(alt, kids) ==
    LET ks == SortInts({kids[alt[i].aid] : i \in DOMAIN alt})
        Sel(k) == LET T(r) == kids[r.aid] = k IN SelectSeq(alt, T)
    IN  [i \in DOMAIN ks |-> [k |-> <<alt[1].eid, ks[i]>>, sel |-> Sel(ks[i])]]

\* tot = ldf.groupby(['eid', 'kid']).sum(): the sorted group keys and
\* the records of each group
ExplicitGroups(alt, kids) ==
    LET ks == SortPairs({<<alt[i].eid, kids[alt[i].aid]>> : i \in DOMAIN alt})
        Sel(k) == LET T(r) == r.eid = k[1] /\ kids[r.aid] = k[2]
                  IN  SelectSeq(alt, T)
    IN  [i \in DOMAIN ks |-> [k |-> ks[i], sel |-> Sel(ks[i])]]

\* the mutant: the total is taken over the first group key only
TotalGroupsFirstKey(alt, K, kids) ==
    LET es == SortInts({alt[i].eid : i \in DOMAIN alt})
        Sel(e) == LET T(r) == r.eid = e /\ (Len(kids) = 0 \/ kids[r.aid] = 0)
                  IN  SelectSeq(alt, T)
    IN  [i \in DOMAIN es |-> [k |-> <<es[i], K>>, sel |-> Sel(es[i])]]

\* tot = ldf.groupby('eid').sum(), stored under the total key K
TotalGroups(alt, K, kids) ==
    LET es == SortInts({alt[i].eid : i \in DOMAIN alt})
        Sel(e) == LET T(r) == r.eid = e IN SelectSeq(alt, T)
    IN  [i \in DOMAIN es |-> [k |-> <<es[i], K>>, sel |-> Sel(es[i])]]

\* if correl: lbe[k][1] = lbe[k][1] ** 2 for every k
Restore(lbe, correl) ==
    IF correl # 0
    THEN [i \in DOMAIN lbe |->
            [k |-> lbe[i].k, v |-> <<lbe[i].v[1], lbe[i].v[2] * lbe[i].v[2]>>]]
    ELSE lbe

aggregate_losses(alt, K, kids, correl) ==
    LET Sums(gs) == [i \in DOMAIN gs |->
                        [k |-> gs[i].k, v |-> GroupSum(gs[i].sel, correl)]]
        explicit == IF Len(kids) # 0
                    THEN Sums(ExplicitGroups(alt, kids))
                    ELSE <<>>
        total == Sums(TotalGroups(alt, K, kids))
        lbe == AccumDict_iadd(AccumDict_iadd(<<>>, explicit), total)
    IN  Restore(lbe, correl)

\* ----------------------------------------------------- event_based_risk

\* df = dstore.read_df('gmf_data', slc=df)
read_df(slc) == SubSeq(gmf_data, slc.start + 1, slc.stop)

\* assets_df.groupby('taxonomy'): the taxonomies in increasing order and
\* the asset ordinals of a taxonomy
Taxonomies == SortInts({assetcol[a].taxonomy : a \in DOMAIN assetcol})

\* the mutant: the group of a taxonomy also holds the assets of the
\* taxonomies before it
AssetsOfUpTo(taxo) ==
    SortInts({a \in DOMAIN assetcol : assetcol[a].taxonomy <= taxo})

AssetsOf(taxo) ==
    SortInts({a \in DOMAIN assetcol : assetcol[a].taxonomy = taxo})

\* gmf_df = df[numpy.isin(df.sid, asset_df.site_id)]
GmfOf(df, asset_df) ==
    LET T(row) == \E i \in DOMAIN asset_df :
                     assetcol[asset_df[i]].site_id = row.sid
    IN  SelectSeq(df, T)

\* kids = dstore['assetcol/kids'][:] if K else ()
KidsOf(K) ==
    IF K # 0 THEN [a \in DOMAIN assetcol |-> assetcol[a].kid] ELSE <<>>

\* the mutant: one entry per loss record, without the groupby
CooOfRecords(alt, collect_rlzs) ==
    [i \in DOMAIN alt |->
        [row |-> alt[i].aid,
         col |-> IF collect_rlzs THEN 0 ELSE rlz_id(alt[i].eid),
         data |-> alt[i].loss]]

\* sparse.coo_matrix((tot.to_numpy(), (aids, rlzs)), AR) of the sums of
\* ldf.groupby('aid') when collect_rlzs, of ldf.groupby(['aid', 'rlz'])
\* otherwise: the entries [row, col, data] in the order of the group keys
CooOf(alt, collect_rlzs) ==
    LET Col(r) == IF collect_rlzs THEN 0 ELSE rlz_id(r.eid)
        ks == SortPairs({<<alt[i].aid, Col(alt[i])>> : i \in DOMAIN alt})
        Sel(k) == LET T(r) == r.aid = k[1] /\ Col(r) = k[2]
                  IN  SelectSeq(alt, T)
    IN  [i \in DOMAIN ks |->
            [row |-> ks[i][1], col |-> ks[i][2],
             data |-> SumSeq([j \in DOMAIN Sel(ks[i]) |-> Sel(ks[i])[j].loss])]]

\* the mutant: neither `continue` is taken, an empty group and an empty
\* loss type go through the aggregation like the others
RiskOfTaxonomyNoSkip(taxo, df, prm, acc) ==
    LET asset_df == AssetsOf(taxo)
        gmf_df == GmfOf(df, asset_df)
        names == Range(oq.loss_names)
        out == [ln \in names |-> get_output(asset_df, gmf_df, ln)]
    IN  [loss_by_EK1 |->
            [ln \in names |->
                AccumDict_iadd(
                    acc.loss_by_EK1[ln],
                    aggregate_losses(out[ln], prm.K, KidsOf(prm.K),
                                     prm.asset_correlation))],
         loss_by_AR |->
            [ln \in names |->
                IF prm.collect_rlzs
                THEN Append(acc.loss_by_AR[ln], CooOf(out[ln], TRUE))
                ELSE IF prm.avg_losses
                THEN Append(acc.loss_by_AR[ln], CooOf(out[ln], FALSE))
                ELSE acc.loss_by_AR[ln]]]

\* the body of `for taxo, asset_df in assets_df.groupby('taxonomy')` for
\* one taxonomy: acc holds loss_by_EK1 and loss_by_AR
RiskOfTaxonomy(taxo, df, prm, acc) ==
    LET asset_df == AssetsOf(taxo)
        gmf_df == GmfOf(df, asset_df)
        names == Range(oq.loss_names)
        out == [ln \in names |-> get_output(asset_df, gmf_df, ln)]
    IN  IF gmf_df = <<>> THEN acc
        ELSE [loss_by_EK1 |->
                [ln \in names |->
                    IF out[ln] = <<>> THEN acc.loss_by_EK1[ln]
                    ELSE AccumDict_iadd(
                            acc.loss_by_EK1[ln],
                            aggregate_losses(out[ln], prm.K, KidsOf(prm.K),
                                             prm.asset_correlation))],
              loss_by_AR |->
                [ln \in names |->
                    IF out[ln] = <<>> THEN acc.loss_by_AR[ln]
                    ELSE IF prm.collect_rlzs
                    THEN Append(acc.loss_by_AR[ln], CooOf(out[ln], TRUE))
                    ELSE IF prm.avg_losses
                    THEN Append(acc.loss_by_AR[ln], CooOf(out[ln], FALSE))
                    ELSE acc.loss_by_AR[ln]]]

RECURSIVE RiskLoop(_, _, _, _)
RiskLoop(taxos, df, prm, acc) ==
    IF taxos = <<>> THEN acc
    ELSE RiskLoop(Tail(taxos), df, prm,
                  RiskOfTaxonomy(Head(taxos), df, prm, acc))

\* the accumulators of event_based_risk after its loop over taxonomies
RiskAccumulators(df, prm) ==
    RiskLoop(Taxonomies, df, prm,
             [loss_by_EK1 |-> [ln \in Range(oq.loss_names) |-> <<>>],
              loss_by_AR |-> [ln \in Range(oq.loss_names) |-> <<>>]])

\* _build_agg_loss_table: per loss type with entries, the DataFrame of
\* the rows (event_id, agg_id, loss, variance, loss_id)
build_agg_loss_table(loss_by_EK1) ==
    LET Rows(ln) ==
            [i \in DOMAIN loss_by_EK1[ln] |->
                [event_id |-> loss_by_EK1[ln][i].k[1],
                 agg_id |-> loss_by_EK1[ln][i].k[2],
                 loss |-> loss_by_EK1[ln][i].v[1],
                 variance |-> loss_by_EK1[ln][i].v[2],
                 loss_id |-> LossIndex(ln)]]
        Has(ln) == Len(loss_by_EK1[ln]) # 0
        lns == SelectSeq(oq.loss_names, Has)
    IN  [i \in DOMAIN lns |-> [ln |-> lns[i], kind |-> "df", val |-> Rows(lns[i])]]

\* the mutant: the agg loss table is yielded before loss_by_AR
RiskYieldsTableFirst(acc) ==
    LET ar == [i \in DOMAIN oq.loss_names |->
                 [ln |-> oq.loss_names[i], kind |-> "coos",
                  val |-> acc.loss_by_AR[oq.loss_names[i]]]]
        alt == build_agg_loss_table(acc.loss_by_EK1)
    IN  (IF alt # <<>> THEN <<alt>> ELSE <<>>)
        \o (IF ar # <<>> THEN <<ar>> ELSE <<>>)

\* the dictionaries event_based_risk yields, in order: loss_by_AR if it
\* has a key, then the agg loss table if it has one.  A dictionary is the
\* sequence of its items [ln, kind, val].
RiskYields(acc) ==
    LET ar == [i \in DOMAIN oq.loss_names |->
                 [ln |-> oq.loss_names[i], kind |-> "coos",
                  val |-> acc.loss_by_AR[oq.loss_names[i]]]]
        alt == build_agg_loss_table(acc.loss_by_EK1)
    IN  (IF ar # <<>> THEN <<ar>> ELSE <<>>)
        \o (IF alt # <<>> THEN <<alt>> ELSE <<>>)

\* a worker runs event_based_risk(slice, param, monitor) to its end; the
\* tasks of the GMF branch of execute are those of the yielded slices
EventBasedRisk(t) ==
    /\ pc = "execute"
    /\ gen.pc = "done"
    /\ t \in DOMAIN yielded
    /\ tasks[t].state = "submitted"
    /\ \E acc \in {RiskAccumulators(read_df(yielded[t]), param)} :
          tasks' = [tasks EXCEPT ![t] =
                       [state |-> "ran",
                        loss_by_EK1 |-> acc.loss_by_EK1,
                        results |-> RiskYields(acc)]]
    /\ UNCHANGED <<legacy, conf, pc, param, gen, yielded, store, side, error>>

\* -------------------------------------------------- start_ebrisk, ebrisk

\* self.N and len(srcfilter.sitecol.complete): the sites of the run
N == Cardinality({assetcol[a].site_id : a \in DOMAIN assetcol})

\* the ways of cutting the sequence s into contiguous nonempty blocks
BlocksOf(s) ==
    IF s = <<>> THEN {<<>>}
    ELSE {LET cs == SortInts(C \cup {Len(s)})
          IN  [i \in DOMAIN cs |->
                  SubSeq(s, (IF i = 1 THEN 0 ELSE cs[i - 1]) + 1, cs[i])]
          : C \in SUBSET (1..(Len(s) - 1))}

\* getters.gen_rupture_getters(self.datastore, ct): the ruptures of the
\* datastore dealt in order to rupture getters, any number of them
gen_rupture_getters == BlocksOf([i \in DOMAIN ruptures |-> i])

\* rgetter.split(srcfilter, maxweight): the ruptures of the getter that
\* the source filter keeps, dealt in order to sub-getters
split(rups) ==
    LET Near(i) == ~ ruptures[i].far
    IN  BlocksOf(SelectSeq(rups, Near))

\* a task of the rupture branch of execute: the task function and the
\* ruptures of its getter
RupTask(fn, rups) ==
    [state |-> "submitted", loss_by_EK1 |-> <<>>, results |-> <<>>,
     fn |-> fn, rups |-> rups]

\* gmf_info of ebrisk: one entry per rupture whose computer gave data
\* (rup_id, nsites and gmfbytes = len(data['sid']) * len(data) * 4, a row
\* of data having the columns sid, eid, gmv)
GmfInfoOf(rups) ==
    LET Has(i) == ruptures[i].rows # <<>>
        hit == SelectSeq(rups, Has)
    IN  [j \in DOMAIN hit |->
            [rup_id |-> hit[j],
             nsites |-> Cardinality({ruptures[hit[j]].rows[r].sid :
                                        r \in DOMAIN ruptures[hit[j]].rows}),
             gmfbytes |-> Len(ruptures[hit[j]].rows) * 3 * 4]]

\* ebrisk(rupgetter, param, monitor) run to its end: nothing without GMF
\* rows; otherwise the yields of event_based_risk on the DataFrame of all
\* the rows, then {'gmf_info': ...}
EbriskOut(rups, prm) ==
    LET alldata == Concat([j \in DOMAIN rups |-> ruptures[rups[j]].rows])
        info == GmfInfoOf(rups)
        acc == RiskAccumulators(alldata, prm)
    IN  IF alldata = <<>>
        THEN [loss_by_EK1 |-> <<>>, results |-> <<>>]
        ELSE [loss_by_EK1 |-> acc.loss_by_EK1,
              results |->
                 RiskYields(acc)
                 \o (IF info # <<>>
                     THEN << <<[ln |-> "gmf_info", kind |-> "gmf_info",
                                val |-> info]>> >>
                     ELSE <<>>)]

\* a worker runs ebrisk on a sub-task: param['N'] is assigned first
Ebrisk(t) ==
    /\ pc = "execute"
    /\ gen.pc = "done"
    /\ t \notin DOMAIN yielded
    /\ tasks[t].fn = "ebrisk"
    /\ tasks[t].state = "submitted"
    /\ param' = [param EXCEPT !.N = N]
    /\ assigned' = assigned \cup {<<t, "N">>}
    /\ \E out \in {EbriskOut(tasks[t].rups, param')} :
          tasks' = [tasks EXCEPT ![t].state = "ran",
                                 ![t].loss_by_EK1 = out.loss_by_EK1,
                                 ![t].results = out.results]
    /\ UNCHANGED <<legacy, conf, pc, gen, yielded, store, log, error>>

\* the mutant: the last sub-getter is yielded as a sub-task like the
\* others and processed in the same task as well
StartEbriskAll(t) ==
    /\ pc = "execute"
    /\ gen.pc = "done"
    /\ t \notin DOMAIN yielded
    /\ tasks[t].fn = "start_ebrisk"
    /\ tasks[t].state = "submitted"
    /\ \E rgetters \in split(tasks[t].rups) :
          LET n == Len(rgetters)
              subtasks == [i \in 1..n |-> RupTask("ebrisk", rgetters[i])]
          IN  IF n = 0
              THEN /\ tasks' = [tasks EXCEPT ![t].state = "ran"]
                   /\ UNCHANGED <<param, assigned>>
              ELSE /\ param' = [param EXCEPT !.N = N]
                   /\ assigned' = assigned \cup {<<t, "N">>}
                   /\ \E out \in {EbriskOut(rgetters[n], param')} :
                         tasks' = [tasks EXCEPT
                                      ![t].state = "ran",
                                      ![t].loss_by_EK1 = out.loss_by_EK1,
                                      ![t].results = out.results]
                                  \o subtasks
    /\ UNCHANGED <<legacy, conf, pc, gen, yielded, store, log, error>>

\* a worker runs start_ebrisk: every sub-getter but the last is yielded
\* as a sub-task (ebrisk, rg, param), which the Starmap submits; the last
\* one is processed by ebrisk in the same task
StartEbrisk(t) ==
    /\ pc = "execute"
    /\ gen.pc = "done"
    /\ t \notin DOMAIN yielded
    /\ tasks[t].fn = "start_ebrisk"
    /\ tasks[t].state = "submitted"
    /\ \E rgetters \in split(tasks[t].rups) :
          LET n == Len(rgetters)
              subtasks == [i \in 1..(n - 1) |-> RupTask("ebrisk", rgetters[i])]
          IN  IF n = 0
              THEN /\ tasks' = [tasks EXCEPT ![t].state = "ran"]
                   /\ UNCHANGED <<param, assigned>>
              ELSE /\ param' = [param EXCEPT !.N = N]
                   /\ assigned' = assigned \cup {<<t, "N">>}
                   /\ \E out \in {EbriskOut(rgetters[n], param')} :
                         tasks' = [tasks EXCEPT
                                      ![t].state = "ran",
                                      ![t].loss_by_EK1 = out.loss_by_EK1,
                                      ![t].results = out.results]
                                  \o subtasks
    /\ UNCHANGED <<legacy, conf, pc, gen, yielded, store, log, error>>

\* ------------------------------------------------------------ agg_dicts

\* the columns of agg_loss_table (descr, in pre_execute)
Columns == {"event_id", "agg_id", "loss_id", "loss", "variance"}

\* the mutant: the new rows are stored in front of the old ones
ExtendTableInFront(table, rows) ==
    [name \in Columns |->
        [i \in DOMAIN rows |-> rows[i][name]] \o table[name]]

\* for name in ls.columns: hdf5.extend(dset, ls[name].to_numpy())
ExtendTable(table, rows) ==
    [name \in Columns |->
        table[name] \o [i \in DOMAIN rows |-> rows[i][name]]]

\* the rows of the column store, read back (read_df('agg_loss_table'))
TableRows(table) ==
    [i \in DOMAIN table["event_id"] |->
        [name \in Columns |-> table[name][i]]]

\* the largest element of a nonempty set of integers
MaxOf(S) == CHOOSE x \in S : \A y \in S : y <= x

\* the mutant: the data are added at every loss type index
AddCooAllTypes(arr, coo, l) ==
    [idx \in DOMAIN arr |->
        LET hits == {i \in DOMAIN coo : <<coo[i].row, coo[i].col>> =
                                            <<idx[1], idx[2]>>}
        IN  IF hits = {} THEN arr[idx] ELSE arr[idx] + coo[MaxOf(hits)].data]

\* self.avg_losses[coo.row, coo.col, lti[ln]] += coo.data, numpy's
\* buffered update: a coordinate that occurs more than once in coo gets
\* the data of its last occurrence only
AddCoo(arr, coo, l) ==
    [idx \in DOMAIN arr |->
        LET hits == {i \in DOMAIN coo : <<coo[i].row, coo[i].col, l>> = idx}
        IN  IF hits = {} THEN arr[idx] ELSE arr[idx] + coo[MaxOf(hits)].data]

\* for coo in ls
RECURSIVE AddCoos(_, _, _)
AddCoos(arr, ls, l) ==
    IF ls = <<>> THEN arr
    ELSE AddCoos(AddCoo(arr, Head(ls), l), Tail(ls), l)

\* for ln, ls in dic.items(): a DataFrame extends the table, a list of
\* sparse matrices is summed into self.avg_losses, an attribute that
\* exists only if pre_execute created it
RECURSIVE agg_items(_, _)
agg_items(dic, st) ==
    IF dic = <<>> \/ st.error # "none" THEN st
    ELSE LET it == Head(dic)
         IN  agg_items(Tail(dic),
                IF it.kind = "df"
                THEN [st EXCEPT !.table = ExtendTable(@, it.val)]
                ELSE IF it.val = <<>> THEN st
                ELSE IF ~ st.avg.exists
                THEN [st EXCEPT !.error = "AttributeError"]
                ELSE [st EXCEPT !.avg.arr =
                                   AddCoos(@, it.val, LossIndex(it.ln))])

\* 'gmf_info' in dic
HasGmfInfo(dic) == \E i \in DOMAIN dic : dic[i].ln = "gmf_info"

\* the reducer takes the next result of task t: agg_dicts(acc, dic).  An
\* empty dic is dropped; a dic with gmf_info extends the gmf_info dataset
\* and nothing else; any other dic is stored item by item.
AggDicts(t) ==
    /\ pc = "execute"
    /\ gen.pc = "done"
    /\ tasks[t].results # <<>>
    /\ LET dic == Head(tasks[t].results)
       IN  IF dic = <<>>
           THEN UNCHANGED <<oq, agg_loss_table, avg_losses, gmf_info,
                            error, pc>>
           ELSE IF HasGmfInfo(dic)
           THEN /\ gmf_info' = gmf_info \o
                       dic[CHOOSE i \in DOMAIN dic : dic[i].ln = "gmf_info"].val
                /\ UNCHANGED <<oq, agg_loss_table, avg_losses, error, pc>>
           ELSE /\ \E st \in {agg_items(dic,
                                         [table |-> agg_loss_table,
                                          avg |-> avg_losses,
                                          error |-> "none"])} :
                      /\ agg_loss_table' = st.table
                      /\ avg_losses' = st.avg
                      /\ error' = st.error
                      /\ pc' = IF st.error # "none" THEN "failed" ELSE pc
                /\ oq' = [oq EXCEPT !.ground_motion_fields = FALSE]
                /\ UNCHANGED gmf_info
    /\ tasks' = [tasks EXCEPT ![t].results = Tail(@)]
    /\ UNCHANGED <<legacy, E, R, weights, assetcol, aggkey, gmf_data, ruptures,
                   param, gen, yielded, agg_losses, dsets, side>>

\* ---------------------------------------------------------- pre_execute

\* the bytes per row of `alt_nbytes = 4 * self.E * L`, in words
RowWords == 1

\* the mutant: a projected size equal to the ceiling is rejected too
TooBigOrEqual(nwords, ntasks) ==
    nwords \div ntasks >= TWO32

\* alt_nbytes / (oq.concurrent_tasks or 1) > TWO32, the float quotient
\* compared exactly
TooBig(nwords, ntasks) ==
    \/ nwords \div ntasks > TWO32
    \/ nwords \div ntasks = TWO32 /\ nwords % ntasks > 0

\* R = 1 if oq.collect_rlzs else len(ws)
NumRlzs == IF oq.collect_rlzs THEN 1 ELSE Len(weights)

\* numpy.zeros((A, R, L), F32)
ZeroLosses ==
    [idx \in (DOMAIN assetcol) \X (0..(NumRlzs - 1))
             \X (0..(Len(oq.loss_names) - 1)) |-> 0]

\* the empty column store of create_df('agg_loss_table', descr, ...)
EmptyTable == [name \in Columns |-> <<>>]

\* the mutant: the guard records its error and the run goes on
PreExecuteGoesOn ==
    /\ pc = "pre_execute"
    /\ oq' = IF oq.calculation_mode = "ebrisk"
             THEN [oq EXCEPT !.ground_motion_fields = FALSE]
             ELSE oq
    /\ param' = [asset_correlation |-> oq.asset_correlation,
                 N |-> N,
                 K |-> NumKeys,
                 maxweight |-> oq.ebrisk_maxsize \div ct,
                 collect_rlzs |-> oq.collect_rlzs,
                 avg_losses |-> oq.avg_losses]
    /\ agg_loss_table' = EmptyTable
    /\ avg_losses' = IF oq.avg_losses
                     THEN [exists |-> TRUE, arr |-> ZeroLosses]
                     ELSE avg_losses
    /\ IF TooBig(RowWords * E * Len(oq.loss_names), ct)
       THEN /\ error' = "RuntimeError: The event loss table is too big"
            /\ pc' = "execute"
       ELSE /\ error' = error
            /\ pc' = "execute"
    /\ UNCHANGED <<legacy, E, R, weights, assetcol, aggkey, gmf_data, ruptures, gen,
                   yielded, tasks, gmf_info, agg_losses, dsets, side>>

\* pre_execute of a calculation whose mode is ebrisk, scenario_risk or
\* event_based_risk (all of them take the 'risk' branch of line 283):
\* sets self.param, creates the stores and runs the capacity guard
PreExecute ==
    /\ pc = "pre_execute"
    /\ oq' = IF oq.calculation_mode = "ebrisk"
             THEN [oq EXCEPT !.ground_motion_fields = FALSE]
             ELSE oq
    /\ param' = [asset_correlation |-> oq.asset_correlation,
                 N |-> N,
                 K |-> NumKeys,
                 maxweight |-> oq.ebrisk_maxsize \div ct,
                 collect_rlzs |-> oq.collect_rlzs,
                 avg_losses |-> oq.avg_losses]
    /\ agg_loss_table' = EmptyTable
    /\ avg_losses' = IF oq.avg_losses
                     THEN [exists |-> TRUE, arr |-> ZeroLosses]
                     ELSE avg_losses
    /\ IF TooBig(RowWords * E * Len(oq.loss_names), ct)
       THEN /\ error' = "RuntimeError: The event loss table is too big"
            /\ pc' = "failed"
       ELSE /\ error' = error
            /\ pc' = "execute"
    /\ UNCHANGED <<legacy, E, R, weights, assetcol, aggkey, gmf_data, ruptures, gen,
                   yielded, tasks, gmf_info, agg_losses, dsets, side>>

\* -------------------------------------------------------------- execute

\* the rupture branch of execute: one start_ebrisk task is submitted per
\* rupture getter
SubmitRupGetters ==
    /\ pc = "execute"
    /\ "gmf_data" \notin dsets
    /\ gen.pc = "loop"
    /\ \E rgs \in gen_rupture_getters :
          tasks' = [i \in DOMAIN rgs |-> RupTask("start_ebrisk", rgs[i])]
    /\ gen' = [gen EXCEPT !.pc = "done"]
    /\ UNCHANGED <<legacy, conf, pc, param, yielded, store, side, error>>

\* a task function raises in a worker (the risk model fails on the
\* chunk): the task ends with the exception as its result
TaskRaises(t) ==
    /\ pc = "execute"
    /\ gen.pc = "done"
    /\ tasks[t].state = "submitted"
    /\ tasks' = [tasks EXCEPT ![t].state = "raised"]
    /\ UNCHANGED <<legacy, conf, pc, param, gen, yielded, store, side, error>>

\* the mutant: the reducer resubmits the task that raised
ReduceRetries(t) ==
    /\ pc = "execute"
    /\ gen.pc = "done"
    /\ tasks[t].state = "raised"
    /\ tasks' = [tasks EXCEPT ![t].state = "submitted"]
    /\ UNCHANGED <<legacy, conf, pc, param, gen, yielded, store, side, error>>

\* smap.reduce meets the result of a task that raised: the exception is
\* raised again in the calculator and ends execute, which has no handler
\* around smap.reduce
ReduceRaises(t) ==
    /\ pc = "execute"
    /\ gen.pc = "done"
    /\ tasks[t].state = "raised"
    /\ error' = "task error"
    /\ pc' = "failed"
    /\ UNCHANGED <<legacy, conf, param, gen, yielded, tasks, store, side>>

\* smap.reduce(self.agg_dicts) has seen every result.  In the rupture
\* branch an empty gmf_info is an error; otherwise execute returns 1.
ExecuteReturn ==
    /\ pc = "execute"
    /\ gen.pc = "done"
    /\ \A t \in DOMAIN tasks :
          tasks[t].state = "ran" /\ tasks[t].results = <<>>
    /\ IF "gmf_data" \notin dsets /\ Len(gmf_info) = 0
       THEN /\ error' = "RuntimeError: No GMFs were generated"
            /\ pc' = "failed"
       ELSE /\ error' = error
            /\ pc' = "post_execute"
    /\ UNCHANGED <<legacy, conf, param, gen, yielded, tasks, store, side>>

\* --------------------------------------------------------- post_execute

\* numpy.bincount(self.rlzs): the events of realization r, and the length
\* of the array (the last realization that has an event, plus one)
NumEvents(r) ==
    IF E - 1 >= r THEN (E - 1 - r) \div Len(weights) + 1 ELSE 0
BinCountLen == IF E >= Len(weights) THEN Len(weights) ELSE E

\* self.avg_ratio as pre_execute sets it when oq.avg_losses, indexed from
\* 0; with an investigation time the calculation is event based,
\* without one it is a scenario
avg_ratio ==
    IF oq.collect_rlzs
    THEN IF oq.investigation_time # 0
         THEN [r \in {0} |-> [num |-> oq.time_ratio.num,
                              den |-> oq.time_ratio.den * Len(weights)]]
         ELSE [r \in {0} |-> [num |-> 1, den |-> E]]
    ELSE IF oq.investigation_time # 0
         THEN [r \in 0..(Len(weights) - 1) |-> oq.time_ratio]
         ELSE [r \in 0..(BinCountLen - 1) |->
                  [num |-> 1, den |-> NumEvents(r)]]

\* x * q for a number x and a ratio q; the equality of two ratios
Times(x, q) == [num |-> x * q.num, den |-> q.den]
RatioEq(p, q) == p.num * q.den = q.num * p.den

\* the mutant: every column is scaled twice
ScaleLossesTwice(arr) ==
    LET Bad(r) == r >= NumRlzs \/ r \notin DOMAIN avg_ratio
        bad == {r \in 0..(R - 1) : Bad(r)}
        upto == IF bad = {} THEN R
                ELSE CHOOSE r \in bad : \A q \in bad : r <= q
        Twice(q) == [num |-> q.num * q.num, den |-> q.den * q.den]
    IN  [error |-> IF bad = {} THEN "none" ELSE "IndexError",
         arr |-> [idx \in DOMAIN arr |->
                     IF idx[2] < upto
                     THEN Times(arr[idx], Twice(avg_ratio[idx[2]]))
                     ELSE Times(arr[idx], [num |-> 1, den |-> 1])]]

\* for r in range(self.R): self.avg_losses[:, r] *= self.avg_ratio[r];
\* the first r out of the array or of avg_ratio is an IndexError, which
\* leaves the columns before it scaled
ScaleLosses(arr) ==
    LET Bad(r) == r >= NumRlzs \/ r \notin DOMAIN avg_ratio
        bad == {r \in 0..(R - 1) : Bad(r)}
        upto == IF bad = {} THEN R
                ELSE CHOOSE r \in bad : \A q \in bad : r <= q
    IN  [error |-> IF bad = {} THEN "none" ELSE "IndexError",
         arr |-> [idx \in DOMAIN arr |->
                     IF idx[2] < upto
                     THEN Times(arr[idx], avg_ratio[idx[2]])
                     ELSE Times(arr[idx], [num |-> 1, den |-> 1])]]

\* the scenario_risk branch: agglosses[agg_id, rlz_id, loss_id] =
\* df.loss.sum() * self.avg_ratio[rlz_id] for every group of the rows of
\* agg_loss_table, on numpy.zeros((K + 1, self.R, self.L))
AggLosses ==
    LET rows == TableRows(agg_loss_table)
        Rlz(i) == rlz_id(rows[i]["event_id"])
        Group(i) == <<rows[i]["agg_id"], Rlz(i), rows[i]["loss_id"]>>
        shape == (0..NumKeys) \X (0..(R - 1)) \X (0..(Len(oq.loss_names) - 1))
        Sum(g) == LET In(row) == <<row["agg_id"], rlz_id(row["event_id"]),
                                   row["loss_id"]>> = g
                      sel == SelectSeq(rows, In)
                  IN  SumSeq([j \in DOMAIN sel |-> sel[j]["loss"]])
    IN  IF rows # <<>> /\ ~ avg_losses.exists
        THEN [error |-> "AttributeError", arr |-> <<>>]
        ELSE IF \E i \in DOMAIN rows :
                    Rlz(i) \notin DOMAIN avg_ratio \/ Group(i) \notin shape
        THEN [error |-> "IndexError", arr |-> <<>>]
        ELSE [error |-> "none",
              arr |-> [g \in shape |->
                          IF \E i \in DOMAIN rows : Group(i) = g
                          THEN Times(Sum(g), avg_ratio[g[2]])
                          ELSE [num |-> 0, den |-> 1]]]

\* sumlosses = self.avg_losses.sum(axis=0), of the scaled array
SumLosses(arr) ==
    [rl \in (0..(NumRlzs - 1)) \X (0..(Len(oq.loss_names) - 1)) |->
        [num |-> SumSeq([a \in DOMAIN assetcol |->
                            arr[<<a, rl[1], rl[2]>>].num]),
         den |-> arr[<<1, rl[1], rl[2]>>].den]]

\* agglosses[K] and sumlosses are equal in exact arithmetic, the axis of
\* the realizations being broadcast when one of the two has length 1
ExactlyClose(agg, sums) ==
    \A r \in 0..((IF R > NumRlzs THEN R ELSE NumRlzs) - 1) :
        \A l \in 0..(Len(oq.loss_names) - 1) :
            RatioEq(agg[<<NumKeys, IF R = 1 THEN 0 ELSE r, l>>],
                    sums[<<IF NumRlzs = 1 THEN 0 ELSE r, l>>])

\* the mutant: the disagreement of the sanity check is an error
SanityCheckStrict(mode, agg, avg) ==
    IF mode # "scenario_risk"
    THEN {[error |-> "UnboundLocalError", warn |-> FALSE]}
    ELSE IF R # NumRlzs /\ R # 1 /\ NumRlzs # 1
    THEN {[error |-> "ValueError", warn |-> FALSE]}
    ELSE {[error |-> IF close THEN "none" ELSE "ValueError", warn |-> FALSE] :
             close \in (IF ExactlyClose(agg, SumLosses(avg))
                        THEN BOOLEAN ELSE {FALSE})}

\* the sanity check of lines 413-421: the possible outcomes.  agglosses
\* is a local of the scenario_risk branch; the float32 sums of the two
\* arrays are taken in different orders, so that numpy.allclose may fail
\* on values that are equal in exact arithmetic; a failure logs a warning
SanityCheck(mode, agg, avg) ==
    IF mode # "scenario_risk"
    THEN {[error |-> "UnboundLocalError", warn |-> FALSE]}
    ELSE IF R # NumRlzs /\ R # 1 /\ NumRlzs # 1
    THEN {[error |-> "ValueError", warn |-> FALSE]}
    ELSE {[error |-> "none", warn |-> ~ close] :
             close \in (IF ExactlyClose(agg, SumLosses(avg))
                        THEN BOOLEAN ELSE {FALSE})}

\* post_execute: scales and stores the average losses, computes the
\* aggregate losses of a scenario (any other mode runs the
\* PostRiskCalculator, which is outside this module and leaves the
\* state of the model alone) and ends with the sanity check
PostExecute ==
    /\ pc = "post_execute"
    /\ \E sc \in {IF oq.avg_losses
                  THEN ScaleLosses(avg_losses.arr)
                  ELSE [error |-> "none", arr |-> avg_losses.arr]} :
       \E ag \in {IF sc.error = "none" /\ oq.calculation_mode = "scenario_risk"
                  THEN AggLosses
                  ELSE [error |-> "none", arr |-> agg_losses]} :
          LET err == IF sc.error # "none" THEN sc.error ELSE ag.error
              stored == IF err = "none" /\ oq.calculation_mode = "scenario_risk"
                        THEN dsets \cup {"agg_losses-rlzs"}
                        ELSE dsets
              return == \/ oq.investigation_time # 0
                        \/ ~ oq.avg_losses
                        \/ "agg_losses-rlzs" \notin stored
          IN  /\ avg_losses' = [avg_losses EXCEPT !.arr = sc.arr]
              /\ agg_losses' = ag.arr
              /\ dsets' = stored
              /\ IF err # "none"
                 THEN /\ error' = err
                      /\ pc' = "failed"
                      /\ log' = log
                 ELSE IF return
                 THEN /\ error' = error
                      /\ pc' = "done"
                      /\ log' = log
                 ELSE \E out \in SanityCheck(oq.calculation_mode, ag.arr,
                                             sc.arr) :
                         /\ error' = out.error
                         /\ pc' = IF out.error = "none" THEN "done"
                                  ELSE "failed"
                         /\ log' = IF out.warn
                                   THEN Append(log, "agg_losses != sum(avg_losses)")
                                   ELSE log
    /\ UNCHANGED <<legacy, conf, param, gen, yielded, tasks, agg_loss_table,
                   gmf_info, assigned>>

\* ---------------------------------------------------------- the inputs

LossNames == <<"structural", "nonstructural", "contents">>

\* an exposure of three assets on two sites; the taxonomies of the last
\* two assets and the aggregation key of the second one are inputs
Portfolio(t2, t3, k2) ==
    << [taxonomy |-> 1, site_id |-> 1, kid |-> 0,
        value |-> [structural |-> 1, nonstructural |-> 1, contents |-> 1],
        sd |-> [structural |-> 1, nonstructural |-> 0, contents |-> 1]],
       [taxonomy |-> t2, site_id |-> 1, kid |-> k2,
        value |-> [structural |-> 2, nonstructural |-> 0, contents |-> 1],
        sd |-> [structural |-> 2, nonstructural |-> 0, contents |-> 1]],
       [taxonomy |-> t3, site_id |-> 2, kid |-> 1,
        value |-> [structural |-> 3, nonstructural |-> 2, contents |-> 1],
        sd |-> [structural |-> 1, nonstructural |-> 1, contents |-> 1]] >>

Portfolios == {Portfolio(2, 1, 0), Portfolio(1, 2, 1)}

Sites == {1, 2}

\* the gmf_data tables the hazard part stores: the rows sorted by event
\* and site, at most one row per event and site
GmfTables(maxeid) ==
    {[i \in DOMAIN (SortPairs(S)) |->
        [eid |-> SortPairs(S)[i][1], sid |-> SortPairs(S)[i][2], gmv |-> 1]]
     : S \in SUBSET ((1..maxeid) \X Sites)}

NoParam == [asset_correlation |-> 0, N |-> 0, K |-> 0, maxweight |-> 0,
            collect_rlzs |-> FALSE, avg_losses |-> FALSE]

NoLosses == [exists |-> FALSE, arr |-> <<>>]

\* a calculation that starts from stored GMFs, before pre_execute
Init ==
    /\ NoLegacyJob
    /\ oq \in [concurrent_tasks : 0..MaxCT,
               asset_correlation : {0, 1},
               ebrisk_maxsize : {2},
               loss_names : {SubSeq(LossNames, 1, 2)},
               avg_losses : {TRUE},
               collect_rlzs : {FALSE},
               ground_motion_fields : {TRUE},
               calculation_mode : {"event_based_risk"},
               investigation_time : {1},
               time_ratio : {[num |-> 1, den |-> 2]}]
    /\ E = MaxEid
    /\ R = 2
    /\ weights = <<1, 1>>
    /\ assetcol \in Portfolios
    /\ aggkey \in {<<>>, <<"a", "b">>}
    /\ gmf_data \in GmfTables(MaxEid)
    /\ ruptures = <<>>
    /\ dsets = {"gmf_data"}
    /\ pc = "pre_execute"
    /\ param = NoParam
    /\ gen = GenInit
    /\ yielded = <<>>
    /\ tasks = <<>>
    /\ agg_loss_table = EmptyTable
    /\ avg_losses = NoLosses
    /\ gmf_info = <<>>
    /\ agg_losses = <<>>
    /\ assigned = {}
    /\ log = <<>>
    /\ error = "none"

Next ==
    \/ PreExecute
    \/ GenArgsLoop
    \/ GenArgsEnd
    \/ \E t \in DOMAIN tasks : EventBasedRisk(t)
    \/ \E t \in DOMAIN tasks : AggDicts(t)
    \/ ExecuteReturn

Spec == Init /\ [][Next]_vars

\* ---------------------------------------- the partitioner on its own

\* gen_args on any sequence of event ids (contiguous by event or not),
\* each row on a site of its own, in the state pre_execute leaves
InitPart ==
    /\ NoLegacyJob
    /\ oq \in [concurrent_tasks : 0..MaxCT,
               asset_correlation : {0},
               ebrisk_maxsize : {2},
               loss_names : {SubSeq(LossNames, 1, 1)},
               avg_losses : {FALSE},
               collect_rlzs : {FALSE},
               ground_motion_fields : {TRUE},
               calculation_mode : {"event_based_risk"},
               investigation_time : {1},
               time_ratio : {[num |-> 1, den |-> 2]}]
    /\ E = MaxEid
    /\ R = 1
    /\ weights = <<1>>
    /\ assetcol = Portfolio(2, 1, 0)
    /\ aggkey = <<>>
    /\ \E s \in SeqUpTo(1..MaxEid, MaxRows) :
          gmf_data = [i \in DOMAIN s |-> [eid |-> s[i], sid |-> i, gmv |-> 1]]
    /\ ruptures = <<>>
    /\ dsets = {"gmf_data"}
    /\ pc = "execute"
    /\ param = [NoParam EXCEPT !.maxweight = oq.ebrisk_maxsize \div ct,
                               !.N = N]
    /\ gen = GenInit
    /\ yielded = <<>>
    /\ tasks = <<>>
    /\ agg_loss_table = EmptyTable
    /\ avg_losses = NoLosses
    /\ gmf_info = <<>>
    /\ agg_losses = <<>>
    /\ assigned = {}
    /\ log = <<>>
    /\ error = "none"

NextPart == GenArgsLoop \/ GenArgsEnd

SpecPart == InitPart /\ [][NextPart]_vars

\* ------------------------------------------- pre_execute on its own

\* the numbers of events of the guard's specification
\* 536870912 = 2^29: with two loss types the projected size of one task
\* is exactly the ceiling
EventCounts == {3, 1000, 100000000, 500000000, 536870912, 536870913}

InitGuard ==
    /\ NoLegacyJob
    /\ oq \in [concurrent_tasks : {0, 1, 2, 1000},
               asset_correlation : {0},
               ebrisk_maxsize : {1, 2, 1000},
               loss_names : {SubSeq(LossNames, 1, n) : n \in 1..3},
               avg_losses : {FALSE},
               collect_rlzs : {FALSE},
               ground_motion_fields : {TRUE},
               calculation_mode : {"event_based_risk"},
               investigation_time : {1},
               time_ratio : {[num |-> 1, den |-> 2]}]
    /\ E \in EventCounts
    /\ R = 1
    /\ weights = <<1>>
    /\ assetcol = Portfolio(2, 1, 0)
    /\ aggkey \in {<<>>, <<"a", "b">>}
    /\ gmf_data = <<>>
    /\ ruptures = <<>>
    /\ dsets = {"gmf_data"}
    /\ pc = "pre_execute"
    /\ param = NoParam
    /\ gen = GenInit
    /\ yielded = <<>>
    /\ tasks = <<>>
    /\ agg_loss_table = EmptyTable
    /\ avg_losses = NoLosses
    /\ gmf_info = <<>>
    /\ agg_losses = <<>>
    /\ assigned = {}
    /\ log = <<>>
    /\ error = "none"

NextGuard == PreExecute

SpecGuard == InitGuard /\ [][NextGuard]_vars

\* ------------------------------------------------------ the whole run

\* a number of events for which the capacity guard rejects a run of two
\* loss types and one task
ManyEvents == 1000000000

\* the ruptures of the runs that start from ruptures: rupture i gives
\* event i; its rows are none (below min_iml), one or two; a far rupture
\* is discarded by the source filter
RuptureOptions(i) ==
    {[far |-> FALSE, rows |-> <<>>],
     [far |-> FALSE, rows |-> <<[eid |-> i, sid |-> 1, gmv |-> 1]>>],
     [far |-> FALSE, rows |-> <<[eid |-> i, sid |-> 1, gmv |-> 1],
                                [eid |-> i, sid |-> 2, gmv |-> 1]>>],
     [far |-> FALSE, rows |-> <<[eid |-> i, sid |-> 2, gmv |-> 1]>>],
     [far |-> TRUE, rows |-> <<[eid |-> i, sid |-> 2, gmv |-> 1]>>]}

RuptureSets ==
    {<<>>} \cup {<<r1>> : r1 \in RuptureOptions(1)}
           \cup {<<r1, r2>> : r1 \in RuptureOptions(1), r2 \in RuptureOptions(2)}

\* exposures whose asset on site 2 has no value for the second loss type,
\* or for neither of the first two
SparsePortfolios ==
    {[Portfolio(1, 2, 1) EXCEPT ![3].value.nonstructural = 0],
     [Portfolio(1, 2, 1) EXCEPT ![3].value.nonstructural = 0,
                                ![3].value.structural = 0]}

\* a calculation before pre_execute, starting from stored GMFs or from
\* ruptures, in any of the three calculation modes; a scenario has no
\* investigation time, an event based calculation has one
InitRun ==
    /\ NoLegacyJob
    /\ oq \in [concurrent_tasks : 1..2,
               asset_correlation : {0},
               ebrisk_maxsize : {2},
               loss_names : {SubSeq(LossNames, 1, 2)},
               avg_losses : BOOLEAN,
               collect_rlzs : BOOLEAN,
               ground_motion_fields : {TRUE},
               calculation_mode : {"scenario_risk", "event_based_risk",
                                   "ebrisk"},
               investigation_time : {0, 1},
               time_ratio : {[num |-> 1, den |-> 2]}]
    /\ (oq.investigation_time = 0) = (oq.calculation_mode = "scenario_risk")
    /\ E \in {MaxEid, ManyEvents}
    /\ E = ManyEvents => oq.concurrent_tasks = 1
    /\ R \in (IF oq.collect_rlzs THEN {1, 2} ELSE {2})
    /\ weights = <<1, 1>>
    /\ assetcol \in Portfolios \cup SparsePortfolios
    /\ aggkey = <<"a", "b">>
    /\ \/ /\ dsets = {"gmf_data"}
          /\ assetcol \in Portfolios
          /\ gmf_data \in GmfTables(MaxEid - 1)
          /\ ruptures = <<>>
       \/ /\ dsets = {}
          /\ gmf_data = <<>>
          /\ ruptures \in RuptureSets
    /\ pc = "pre_execute"
    /\ param = NoParam
    /\ gen = GenInit
    /\ yielded = <<>>
    /\ tasks = <<>>
    /\ agg_loss_table = EmptyTable
    /\ avg_losses = NoLosses
    /\ gmf_info = <<>>
    /\ agg_losses = <<>>
    /\ assigned = {}
    /\ log = <<>>
    /\ error = "none"

NextRun ==
    \/ PreExecute
    \/ GenArgsLoop
    \/ GenArgsEnd
    \/ SubmitRupGetters
    \/ \E t \in DOMAIN tasks : EventBasedRisk(t)
    \/ \E t \in DOMAIN tasks : StartEbrisk(t)
    \/ \E t \in DOMAIN tasks : Ebrisk(t)
    \/ \E t \in DOMAIN tasks : TaskRaises(t)
    \/ \E t \in DOMAIN tasks : ReduceRaises(t)
    \/ \E t \in DOMAIN tasks : AggDicts(t)
    \/ ExecuteReturn
    \/ PostExecute

SpecRun == InitRun /\ [][NextRun]_vars

\* --------------------------------------------- agg_dicts on its own

\* most results the reducer is given in its specification
MaxResults == 3

\* the results agg_dicts may be given: the empty dictionary, a gmf_info
\* record, and the dictionaries event_based_risk yields for the chunks of
\* one event
Dics(prm) ==
    {<<>>,
     <<[ln |-> "gmf_info", kind |-> "gmf_info",
        val |-> <<[rup_id |-> 1, nsites |-> 1, gmfbytes |-> 12]>>]>>}
    \cup UNION {Range(RiskYields(acc))
                : acc \in {RiskAccumulators(df, prm) : df \in GmfTables(1)}}

\* the calculator in execute, all the results of a task at hand
InitAgg ==
    /\ NoLegacyJob
    /\ oq \in [concurrent_tasks : {1},
               asset_correlation : {0},
               ebrisk_maxsize : {2},
               loss_names : {SubSeq(LossNames, 1, 2)},
               avg_losses : {TRUE},
               collect_rlzs : {FALSE},
               ground_motion_fields : {TRUE},
               calculation_mode : {"event_based_risk"},
               investigation_time : {1},
               time_ratio : {[num |-> 1, den |-> 2]}]
    /\ E = MaxEid
    /\ R = 2
    /\ weights = <<1, 1>>
    /\ assetcol = [Portfolio(1, 2, 1) EXCEPT ![3].value.nonstructural = 0]
    /\ aggkey = <<"a", "b">>
    /\ gmf_data = <<>>
    /\ ruptures = <<>>
    /\ dsets = {"gmf_data"}
    /\ pc = "execute"
    /\ param = [asset_correlation |-> oq.asset_correlation,
                N |-> N,
                K |-> NumKeys,
                maxweight |-> oq.ebrisk_maxsize \div ct,
                collect_rlzs |-> oq.collect_rlzs,
                avg_losses |-> oq.avg_losses]
    /\ gen = [GenInit EXCEPT !.pc = "done"]
    /\ yielded = <<>>
    /\ \E D \in {Dics(param)} : \E res \in SeqUpTo(D, MaxResults) :
          tasks = <<[state |-> "ran", loss_by_EK1 |-> <<>>, results |-> res]>>
    /\ agg_loss_table = EmptyTable
    /\ avg_losses = [exists |-> TRUE, arr |-> ZeroLosses]
    /\ gmf_info = <<>>
    /\ agg_losses = <<>>
    /\ assigned = {}
    /\ log = <<>>
    /\ error = "none"

NextAgg == \E t \in DOMAIN tasks : AggDicts(t)

SpecAgg == InitAgg /\ [][NextAgg]_vars

\* ------------------------------------------- the legacy calculator
\* openquake/engine/calculators/risk/event_based/core.py

\* collections.Counter: the mapping of its keys to their counts
EmptyCounter == <<>>

\* Counter.__missing__: the count of a key that is not there is 0
CounterGet(c, k) == IF k \in DOMAIN c THEN c[k] ELSE 0

\* c[k] += v: the item is set whatever its value
CounterItemAdd(c, k, v) ==
    [x \in DOMAIN c \cup {k} |->
        CounterGet(c, x) + (IF x = k THEN v ELSE 0)]

\* the mutant: dict.update, the counts of b replace those of a
CounterUpdate(a, b) ==
    [k \in DOMAIN a \cup DOMAIN b |-> IF k \in DOMAIN b THEN b[k] ELSE a[k]]

\* a += b on Counters, which in Python 2 is a = a.__add__(b): the counts
\* are added key by key and only the positive sums are kept
CounterAdd(a, b) ==
    LET ks == {k \in DOMAIN a \cup DOMAIN b :
                  CounterGet(a, k) + CounterGet(b, k) > 0}
    IN  [k \in ks |-> CounterGet(a, k) + CounterGet(b, k)]

\* for i, asset in enumerate(assets):
\*     for j, rupture_id in enumerate(rupture_matrix[i]):
\*         event_loss_table[rupture_id] += loss_matrix[i][j] * asset.value
\* the (rupture id, loss) pairs in the order of the two loops
LossItems(unit) ==
    Concat([i \in DOMAIN unit.assets |->
              [j \in DOMAIN unit.rupture_matrix[i] |->
                  [rupture_id |-> unit.rupture_matrix[i][j],
                   loss |-> unit.loss_matrix[i][j] * unit.assets[i]]]])

RECURSIVE AddItems(_, _)
AddItems(c, items) ==
    IF items = <<>> THEN c
    ELSE AddItems(CounterItemAdd(c, Head(items).rupture_id, Head(items).loss),
                  Tail(items))

\* individual_outputs(unit, params, profile): the assets and the event
\* loss table of the UnitOutputs
individual_outputs(unit) ==
    [assets |-> unit.assets,
     event_loss_table |-> AddItems(EmptyCounter, LossItems(unit))]

\* a celery task event_based at its start: do_event_based has made its
\* empty Counter and done no unit
NewCeleryTask ==
    [state |-> "running", done |-> 0, event_loss_table |-> EmptyCounter,
     type |-> "Counter"]

\* one turn of `for unit in units` of do_event_based.  A unit without
\* assets ends the function with a plain dict, `return {}`, unless
\* individual_outputs raised on the empty hazard (numpy.array(
\* gmvs_ruptures)[:, 0] on what the getter gave for no asset); otherwise
\* event_loss_table += outputs.event_loss_table
DoEventBasedUnit(t) ==
    /\ celery[t].state = "running"
    /\ celery[t].done < Len(units[t])
    /\ LET outputs == individual_outputs(units[t][celery[t].done + 1])
       IN  IF outputs.assets = <<>>
           THEN \/ celery' = [celery EXCEPT ![t].state = "returned",
                                            ![t].event_loss_table = <<>>,
                                            ![t].type = "dict"]
                \/ celery' = [celery EXCEPT ![t].state = "raised"]
           ELSE celery' = [celery EXCEPT
                    ![t].done = @ + 1,
                    ![t].event_loss_table =
                        CounterAdd(@, outputs.event_loss_table)]
    /\ UNCHANGED <<modern, units, inbox, event_loss_table, received,
                   hook_error>>

\* containers.write raises while the outputs of a unit are saved, the
\* database being what it is
WriteFails(t) ==
    /\ celery[t].state = "running"
    /\ celery[t].done > 0
    /\ celery' = [celery EXCEPT ![t].state = "raised"]
    /\ UNCHANGED <<modern, units, inbox, event_loss_table, received,
                   hook_error>>

\* after the loop: `if len(units) < 2: return event_loss_table`;
\* otherwise loss_curves.transpose() is evaluated on a list, which has no
\* such attribute: AttributeError
DoEventBasedEnd(t) ==
    /\ celery[t].state = "running"
    /\ celery[t].done = Len(units[t])
    /\ IF Len(units[t]) < 2
       THEN celery' = [celery EXCEPT ![t].state = "returned"]
       ELSE celery' = [celery EXCEPT ![t].state = "raised"]
    /\ UNCHANGED <<modern, units, inbox, event_loss_table, received,
                   hook_error>>

\* the end of `with db.transaction.commit_on_success(...)` once
\* do_event_based has returned: the transaction is committed, or the
\* commit fails and its exception leaves the task
CommitOnSuccess(t) ==
    /\ celery[t].state = "returned"
    /\ \/ celery' = [celery EXCEPT ![t].state = "committed"]
       \/ celery' = [celery EXCEPT ![t].state = "raised"]
    /\ UNCHANGED <<modern, units, inbox, event_loss_table, received,
                   hook_error>>

\* the message of signal_task_complete(job_id=..., num_items=...,
\* event_loss_table=...) for task t
MessageOf(t) ==
    [task |-> t,
     num_items |-> Len(units[t][1].assets),
     event_loss_table |-> celery[t].event_loss_table,
     type |-> celery[t].type]

\* the mutant: the signal is sent from a finally clause, also when the
\* task body raised
SignalTaskCompleteAlways(t) ==
    /\ celery[t].state \in {"committed", "raised"}
    /\ \A m \in inbox : m.task # t
    /\ t \notin Range(received)
    /\ inbox' = inbox \cup {MessageOf(t)}
    /\ celery' = [celery EXCEPT ![t].state = "signalled"]
    /\ UNCHANGED <<modern, units, event_loss_table, received, hook_error>>

\* signal_task_complete(...), the statement after the with block
SignalTaskComplete(t) ==
    /\ celery[t].state = "committed"
    /\ inbox' = inbox \cup {MessageOf(t)}
    /\ celery' = [celery EXCEPT ![t].state = "signalled"]
    /\ UNCHANGED <<modern, units, event_loss_table, received, hook_error>>

\* task_completed_hook(message), called by the supervisor with the
\* messages in the order they come in:
\* self.event_loss_table += message['event_loss_table'], which raises
\* TypeError on the plain dict of a task that had a unit without assets
TaskCompletedHook(m) ==
    /\ m \in inbox
    /\ inbox' = inbox \ {m}
    /\ received' = Append(received, m.task)
    /\ IF m.type = "Counter"
       THEN /\ event_loss_table' = CounterAdd(event_loss_table,
                                              m.event_loss_table)
            /\ UNCHANGED hook_error
       ELSE /\ hook_error' = "TypeError"
            /\ UNCHANGED event_loss_table
    /\ UNCHANGED <<modern, units, celery>>

\* calculation units: the values of the assets, and per asset the ids of
\* its ruptures and its loss ratios (in a fixed unit); the number of
\* ruptures varies with the asset
Unit(assets, rupture_matrix, loss_matrix) ==
    [assets |-> assets, rupture_matrix |-> rupture_matrix,
     loss_matrix |-> loss_matrix]

UnitLists ==
    LET u0 == Unit(<<>>, <<>>, <<>>)
        u1 == Unit(<<2, 3>>, <<<<1, 2>>, <<1, 2>>>>, <<<<1, 0>>, <<1, 0>>>>)
        u2 == Unit(<<1>>, <<<<1, 3>>>>, <<<<2, 1>>>>)
        u3 == Unit(<<1, 2>>, <<<<2>>, <<3, 1>>>>, <<<<0>>, <<1, 0>>>>)
    IN  {<<u1>>, <<u2>>, <<u3>>, <<u0>>, <<u1, u2>>, <<u1, u0>>}

\* a job of the legacy calculator: the celery tasks are queued with
\* their units, the calculator holds an empty Counter; the calculator
\* of openquake.calculators is not run
InitLegacy ==
    /\ oq = [concurrent_tasks |-> 1, asset_correlation |-> 0,
             ebrisk_maxsize |-> 2, loss_names |-> SubSeq(LossNames, 1, 2),
             avg_losses |-> FALSE, collect_rlzs |-> FALSE,
             ground_motion_fields |-> TRUE,
             calculation_mode |-> "event_based_risk",
             investigation_time |-> 1,
             time_ratio |-> [num |-> 1, den |-> 2]]
    /\ E = MaxEid
    /\ R = 2
    /\ weights = <<1, 1>>
    /\ assetcol = Portfolio(2, 1, 0)
    /\ aggkey = <<>>
    /\ gmf_data = <<>>
    /\ ruptures = <<>>
    /\ dsets = {}
    /\ pc = "pre_execute"
    /\ param = NoParam
    /\ gen = GenInit
    /\ yielded = <<>>
    /\ tasks = <<>>
    /\ agg_loss_table = EmptyTable
    /\ avg_losses = NoLosses
    /\ gmf_info = <<>>
    /\ agg_losses = <<>>
    /\ assigned = {}
    /\ log = <<>>
    /\ error = "none"
    /\ units \in [1..MaxTasks -> UnitLists]
    /\ celery = [t \in 1..MaxTasks |-> NewCeleryTask]
    /\ inbox = {}
    /\ event_loss_table = EmptyCounter
    /\ received = <<>>
    /\ hook_error = "none"

NextLegacy ==
    \/ \E t \in DOMAIN celery : DoEventBasedUnit(t)
    \/ \E t \in DOMAIN celery : WriteFails(t)
    \/ \E t \in DOMAIN celery : DoEventBasedEnd(t)
    \/ \E t \in DOMAIN celery : CommitOnSuccess(t)
    \/ \E t \in DOMAIN celery : SignalTaskComplete(t)
    \/ \E m \in inbox : TaskCompletedHook(m)

SpecLegacy == InitLegacy /\ [][NextLegacy]_vars

\* ----------------------------------------------------------- properties

\* the rows of one event id are contiguous in s
ContiguousByEvent(s) ==
    \A i, j \in DOMAIN s :
        i < j /\ s[i] = s[j] => \A k \in i..j : s[k] = s[i]

\* the rows (1-based) and the event ids of a slice, and its weight
RowsOf(slc) == (slc.start + 1)..slc.stop
EventsOf(slc) == {eids[i] : i \in RowsOf(slc)}
WeightOf(slc) == slc.stop - slc.start

\* C1: partition completeness.  The slices gen_args yields, in order,
\* are contiguous: the first starts at row 0 and each next one starts
\* where the previous one stopped; once gen_args is exhausted the last
\* one stops at len(eids), and reading the slices one after the other
\* gives back gmf_data: no row is dropped, duplicated or reordered.
PartitionComplete ==
    /\ \A i \in DOMAIN yielded :
          /\ yielded[i].start = (IF i = 1 THEN 0 ELSE yielded[i - 1].stop)
          /\ yielded[i].start <= yielded[i].stop
          /\ yielded[i].stop <= Len(eids)
    /\ gen.pc = "done" =>
          /\ (IF yielded = <<>> THEN 0 ELSE yielded[Len(yielded)].stop)
                = Len(eids)
          /\ Concat([i \in DOMAIN yielded |-> read_df(yielded[i])]) = gmf_data

\* C1's case: gen_args is exhausted after several slices, the last of
\* them yielded by the trailing `if weight`
PartitionCompleteWitness ==
    /\ gen.pc = "done"
    /\ gen.weight # 0
    /\ Len(yielded) >= 2
    /\ Len(eids) >= 3

\* C2: atomicity of event groups.  When the rows of every event id are
\* contiguous in gmf_data, no event id occurs in two slices.
EventGroupsAtomic ==
    ContiguousByEvent(eids) =>
        \A i, j \in DOMAIN yielded :
            i # j => EventsOf(yielded[i]) \cap EventsOf(yielded[j]) = {}

\* C2's case: contiguous events, one of several rows, and several slices
EventGroupsAtomicWitness ==
    /\ gen.pc = "done"
    /\ ContiguousByEvent(eids)
    /\ Len(yielded) >= 2
    /\ \E i \in DOMAIN yielded :
          \E r \in RowsOf(yielded[i]) :
              r + 1 \in RowsOf(yielded[i]) /\ eids[r] = eids[r + 1]

\* C3, as claimed: every slice weighs at most maxweight, unless it is a
\* single event group.
ChunkWeightBound ==
    ContiguousByEvent(eids) =>
        \A i \in DOMAIN yielded :
            \/ ~ Exceeds(WeightOf(yielded[i]), maxweight)
            \/ Cardinality(EventsOf(yielded[i])) = 1

\* C4, as claimed: the rows of events [1, 1, 2, 3] with concurrent_tasks
\* = 2 (maxweight 2) are cut into the rows of event 1 and the rows of
\* events 2 and 3.
ScenarioChunks ==
    (gen.pc = "done" /\ eids = <<1, 1, 2, 3>> /\ oq.concurrent_tasks = 2)
        => yielded = <<Slice(0, 2), Slice(2, 4)>>

\* C5, as claimed: a maximum weight of 0 or less is rejected with an
\* error and no task is made, in gen_args (maxweight = len(eids) / ct)
\* and in pre_execute (maxweight = int(ebrisk_maxsize / ct)).
MaxWeightRejected ==
    /\ (gen.pc = "done" /\ maxweight.num <= 0)
          => (error # "none" /\ tasks = <<>>)
    /\ (pc # "pre_execute" /\ param.maxweight <= 0)
          => (error # "none" /\ tasks = <<>>)

\* the loss records of loss type ln that the model returns for the chunk
\* of task t, over all taxonomy groups
ChunkRecords(t, ln) ==
    Concat([i \in DOMAIN Taxonomies |->
              get_output(AssetsOf(Taxonomies[i]),
                         GmfOf(read_df(yielded[t]), AssetsOf(Taxonomies[i])),
                         ln)])

\* record r contributes to the entry of key k = <<eid, kid>>
Contributes(r, k) ==
    /\ r.eid = k[1]
    /\ \/ k[2] = param.K
       \/ param.K # 0 /\ assetcol[r.aid].kid = k[2]

Ran == {t \in DOMAIN tasks : tasks[t].state = "ran"}

\* C6, as claimed: an entry of the chunk's accumulator with exactly two
\* contributing records of variances v1 and v2, whatever their
\* taxonomies, holds v1 + v2 when asset_correlation is 0 and
\* (sqrt(v1) + sqrt(v2))^2 when it is 1.
VarianceCombination ==
    \A t \in Ran : \A ln \in Range(oq.loss_names) :
        \A k \in Keys(tasks[t].loss_by_EK1[ln]) :
            LET C(r) == Contributes(r, k)
                rs == SelectSeq(ChunkRecords(t, ln), C)
                s1 == Sqrt(rs[1].variance)
                s2 == Sqrt(rs[2].variance)
            IN  Len(rs) = 2 =>
                    Value(tasks[t].loss_by_EK1[ln], k)[2] =
                        IF param.asset_correlation = 0
                        THEN rs[1].variance + rs[2].variance
                        ELSE (s1 + s2) * (s1 + s2)

\* the (event_id, agg_id) -> loss mapping of an accumulator
LossMap(d) == [k \in Keys(d) |-> Value(d, k)[1]]

\* the sum of f over the finite set S
RECURSIVE SumOver(_, _)
SumOver(S, f) ==
    IF S = {} THEN 0
    ELSE LET x == CHOOSE y \in S : TRUE
         IN  f[x] + SumOver(S \ {x}, f)

\* in the entries keyed (event, key) -> loss of m, every event has an
\* entry under the total key nk that is the sum of its entries under the
\* explicit keys 0..nk-1
TotalsAgree(m, nk) ==
    \A k \in DOMAIN m :
        /\ <<k[1], nk>> \in DOMAIN m
        /\ m[<<k[1], nk>>] =
              SumOver({j \in DOMAIN m : j[1] = k[1] /\ j[2] < nk}, m)

\* the rows of loss type index l of the persisted table, keyed by
\* (event_id, agg_id); the rows of a key are summed
TableLossMap(l) ==
    LET rows == TableRows(agg_loss_table)
        idx == {i \in DOMAIN rows : rows[i]["loss_id"] = l}
        ks == {<<rows[i]["event_id"], rows[i]["agg_id"]>> : i \in idx}
    IN  [k \in ks |->
            SumOver({i \in idx : <<rows[i]["event_id"], rows[i]["agg_id"]>> = k},
                    [i \in DOMAIN rows |-> rows[i]["loss"]])]

\* C7: total consistency.  With K > 0 aggregation keys, for every event
\* and loss type of a chunk's accumulator, and of the persisted
\* agg_loss_table, the losses under the explicit keys 0..K-1 sum to the
\* loss under the total key K, and the entry of the total key exists.
TotalConsistency ==
    (pc # "pre_execute" /\ param.K > 0) =>
        /\ \A t \in Ran : \A ln \in Range(oq.loss_names) :
              TotalsAgree(LossMap(tasks[t].loss_by_EK1[ln]), param.K)
        /\ \A l \in 0..(Len(oq.loss_names) - 1) :
              TotalsAgree(TableLossMap(l), param.K)

\* C7's case: a persisted event with losses under both explicit keys,
\* folded in from two taxonomy groups
TotalConsistencyWitness ==
    /\ pc = "post_execute"
    /\ param.K = 2
    /\ Cardinality({assetcol[a].taxonomy : a \in DOMAIN assetcol}) = 2
    /\ \E e \in 1..MaxEid :
          {<<e, 0>>, <<e, 1>>, <<e, 2>>} \subseteq DOMAIN TableLossMap(0)

\* C8: additivity of the loss component.  For two chunks of a run with
\* disjoint event ids, the accumulators of the two tasks merged key by
\* key hold the same (event_id, aggregation_key) -> loss mapping as the
\* accumulator of one task given the rows of both chunks, for either
\* asset_correlation; on the loss component the merge of accumulators is
\* commutative and associative.
Additivity ==
    pc = "post_execute" =>
        \A t1, t2 \in Ran : \A ln \in Range(oq.loss_names) :
            LET a == tasks[t1].loss_by_EK1[ln]
                b == tasks[t2].loss_by_EK1[ln]
                both == read_df(yielded[t1]) \o read_df(yielded[t2])
            IN  /\ (EventsOf(yielded[t1]) \cap EventsOf(yielded[t2]) = {}) =>
                      LossMap(AccumDict_iadd(a, b)) =
                          LossMap(RiskAccumulators(both, param).loss_by_EK1[ln])
                /\ LossMap(AccumDict_iadd(a, b)) = LossMap(AccumDict_iadd(b, a))
                /\ \A t3 \in Ran :
                      LET c == tasks[t3].loss_by_EK1[ln]
                      IN  LossMap(AccumDict_iadd(AccumDict_iadd(a, b), c)) =
                              LossMap(AccumDict_iadd(a, AccumDict_iadd(b, c)))

\* C8's case: three tasks of a run, each with losses under explicit keys
AdditivityWitness ==
    /\ pc = "post_execute"
    /\ param.K = 2
    /\ Cardinality(Ran) >= 3
    /\ \A t \in Ran : Len(tasks[t].loss_by_EK1["structural"]) >= 2

\* the keys (event_id, agg_id, loss_id) that receive a loss contribution
\* in the run: per loss record of the whole of gmf_data, the key of its
\* asset (when K > 0) and the total key K
ExpectedKeys ==
    LET all == [a \in DOMAIN assetcol |-> a]
        RecordKeys(r, l) ==
            {<<r.eid, param.K, l>>}
            \cup (IF param.K # 0
                  THEN {<<r.eid, assetcol[r.aid].kid, l>>} ELSE {})
    IN  UNION {UNION {RecordKeys(r, LossIndex(ln)) :
                         r \in Range(get_output(all, gmf_data, ln))} :
                  ln \in Range(oq.loss_names)}

\* C9: row-key uniqueness.  gmf_data being stored in chunks of constant
\* event id, once the reducer has applied the results of all tasks the
\* persisted agg_loss_table holds exactly one row per (event_id, agg_id,
\* loss_id) that received a loss contribution and no other row, and no
\* key comes from two different tasks.
RowKeysUnique ==
    pc = "post_execute" =>
        LET rows == TableRows(agg_loss_table)
            RowKey(i) == <<rows[i]["event_id"], rows[i]["agg_id"],
                           rows[i]["loss_id"]>>
        IN  /\ \A i, j \in DOMAIN rows : i # j => RowKey(i) # RowKey(j)
            /\ {RowKey(i) : i \in DOMAIN rows} = ExpectedKeys
            /\ \A t1, t2 \in DOMAIN tasks : \A ln \in Range(oq.loss_names) :
                  t1 # t2 => Keys(tasks[t1].loss_by_EK1[ln])
                             \cap Keys(tasks[t2].loss_by_EK1[ln]) = {}

\* C9's case: the results of several tasks, on events of several rows,
\* have been reduced into the table
RowKeysUniqueWitness ==
    /\ pc = "post_execute"
    /\ Len(tasks) >= 2
    /\ \A t \in DOMAIN tasks : WeightOf(yielded[t]) >= 2
    /\ Len(agg_loss_table["event_id"]) >= 6

\* C10, as claimed: with 10^8 events and 3 loss types the guard of
\* pre_execute rejects the run with one task and accepts it with 1000.
GuardScenario ==
    (pc # "pre_execute" /\ E = 100000000 /\ Len(oq.loss_names) = 3) =>
        /\ oq.concurrent_tasks = 1 => error # "none"
        /\ oq.concurrent_tasks = 1000 => error = "none"

\* the capacity guard of pre_execute has rejected the run
GuardRejected == error = "RuntimeError: The event loss table is too big"

\* C11: if the capacity guard rejects the configuration, no task is ever
\* dispatched: in every state of a run the guard has rejected, the run
\* has ended in pre_execute, gen_args has yielded nothing and no task
\* has been submitted.
GuardCancels ==
    GuardRejected =>
        /\ pc = "failed"
        /\ gen = GenInit
        /\ yielded = <<>>
        /\ tasks = <<>>

\* C11's case: the guard has rejected a run that has work to dispatch
GuardCancelsWitness ==
    /\ GuardRejected
    /\ gmf_data # <<>> \/ ruptures # <<>>

\* execute has returned normally
Returned == pc \in {"post_execute", "done"}

\* the hazard rows of the whole run: the rows of gmf_data, or the rows
\* the tasks have reported in gmf_info when the run starts from ruptures
NoHazardRows ==
    IF "gmf_data" \in dsets THEN Len(gmf_data) = 0 ELSE Len(gmf_info) = 0

\* C12, as claimed: a run that produces zero hazard rows overall never
\* returns normally from execute, whether it starts from ruptures or
\* from stored GMFs.
ZeroHazardFatal == ~ (Returned /\ NoHazardRows)

\* the tasks whose function has raised
Raised == {t \in DOMAIN tasks : tasks[t].state = "raised"}

\* C13: worker failure is fatal.  Once a task has raised, execute never
\* returns normally; the error that the reduction propagates ends the
\* run; afterwards no task is submitted or run, and a task that raised is
\* never run again.
WorkerFailureFatal ==
    /\ [](/\ Raised # {} => ~ Returned
          /\ error = "task error" => pc = "failed" /\ Raised # {})
    /\ [][/\ \A t \in Raised : tasks'[t].state = "raised"
          /\ error = "task error" => tasks' = tasks]_vars

\* C13's case: the error of a task has ended a run in which another
\* submitted task was still waiting
WorkerFailureFatalWitness ==
    /\ error = "task error"
    /\ \E t \in DOMAIN tasks : tasks[t].state = "submitted"

\* the sum of the entries at (row, col) = (a, r) of the sparse matrices
\* of the list ls
EntrySum(ls, a, r) ==
    SumSeq([j \in DOMAIN ls |->
               LET At(e) == e.row = a /\ e.col = r
                   hit == SelectSeq(ls[j], At)
               IN  SumSeq([i \in DOMAIN hit |-> hit[i].data])])

\* the hazard rows that the tasks of the run process
ProcessedRows ==
    IF "gmf_data" \in dsets THEN gmf_data
    ELSE LET Near(rup) == ~ rup.far
             near == SelectSeq(ruptures, Near)
         IN  Concat([i \in DOMAIN near |-> near[i].rows])

\* the sum of the losses of the loss records of the run for asset a,
\* column r and loss type index l
RecordSum(a, r, l) ==
    LET ln == oq.loss_names[l + 1]
        all == [i \in DOMAIN assetcol |-> i]
        At(rec) == /\ rec.aid = a
                   /\ (IF param.collect_rlzs THEN 0 ELSE rlz_id(rec.eid)) = r
        hit == SelectSeq(get_output(all, ProcessedRows, ln), At)
    IN  SumSeq([i \in DOMAIN hit |-> hit[i].loss])

\* C14: order-independent average-loss reduction.  Every call of
\* agg_dicts on a result of sparse matrices adds to each entry
\* (asset, realization, loss type) of avg_losses the sum of the entries
\* of the matrices at (asset, realization), none being lost; and once
\* all tasks have reported, in whatever order, each entry holds the sum
\* of the losses of all the loss records of the run for it.
AvgLossReduction ==
    /\ [][\A t \in DOMAIN tasks :
            (/\ tasks[t].results # <<>>
             /\ tasks'[t].results = Tail(tasks[t].results)
             /\ ~ HasGmfInfo(Head(tasks[t].results))
             /\ avg_losses.exists /\ error' = "none") =>
                LET dic == Head(tasks[t].results)
                IN  \A idx \in DOMAIN avg_losses.arr :
                        avg_losses'.arr[idx] = avg_losses.arr[idx] +
                            SumSeq([i \in DOMAIN dic |->
                                IF dic[i].kind = "coos"
                                   /\ LossIndex(dic[i].ln) = idx[3]
                                THEN EntrySum(dic[i].val, idx[1], idx[2])
                                ELSE 0])]_vars
    /\ []((pc = "post_execute" /\ avg_losses.exists) =>
            \A idx \in DOMAIN avg_losses.arr :
                avg_losses.arr[idx] = RecordSum(idx[1], idx[2], idx[3]))

\* C14's case: all tasks have reported, and an entry of avg_losses holds
\* the contributions of two tasks, each of them summed over two events
\* or more
AvgLossReductionWitness ==
    /\ pc = "post_execute"
    /\ avg_losses.exists
    /\ param.collect_rlzs
    /\ Len(tasks) >= 2
    /\ \A t \in DOMAIN tasks : tasks[t].loss_by_EK1 # <<>>
    /\ \E idx \in DOMAIN avg_losses.arr : avg_losses.arr[idx] >= 3

\* a step of the reducer: the next result of a task is taken
ReducerStep ==
    \E t \in DOMAIN tasks :
        /\ tasks[t].results # <<>>
        /\ tasks' = [tasks EXCEPT ![t].results = Tail(@)]

\* a step of a task function: a submitted task runs
TaskStep ==
    \E t \in DOMAIN tasks :
        /\ tasks[t].state = "submitted"
        /\ tasks'[t].state # "submitted"

\* C15: append-only, single-writer store.  From pre_execute's creation
\* of agg_loss_table to the start of post_execute, every step leaves the
\* rows already stored unchanged and in place; only a step of the
\* reducer (agg_dicts) changes the table or the average-loss array, and
\* no step of a task function changes either.
AppendOnlyStore ==
    [][pc = "execute" =>
          /\ \A name \in Columns :
                /\ Len(agg_loss_table[name]) <= Len(agg_loss_table'[name])
                /\ SubSeq(agg_loss_table'[name], 1,
                          Len(agg_loss_table[name])) = agg_loss_table[name]
          /\ (agg_loss_table' # agg_loss_table \/ avg_losses' # avg_losses)
                => ReducerStep
          /\ TaskStep => /\ agg_loss_table' = agg_loss_table
                         /\ avg_losses' = avg_losses]_vars

\* C15's case: the results of two tasks have been stored, each with rows
\* of the table, so the second call of agg_dicts found stored rows
AppendOnlyStoreWitness ==
    /\ pc = "execute"
    /\ Cardinality({t \in DOMAIN tasks :
                       /\ tasks[t].state = "ran"
                       /\ tasks[t].loss_by_EK1 # <<>>
                       /\ tasks[t].results = <<>>}) >= 2
    /\ Len(agg_loss_table["event_id"]) >= 2
    /\ avg_losses.exists
    /\ \E idx \in DOMAIN avg_losses.arr : avg_losses.arr[idx] > 0

\* some result of some task holds a sparse matrix
SparseProduced ==
    \E t \in DOMAIN tasks :
        \E i \in DOMAIN tasks[t].results :
            \E k \in DOMAIN tasks[t].results[i] :
                /\ tasks[t].results[i][k].kind = "coos"
                /\ tasks[t].results[i][k].val # <<>>

\* C16, as claimed: with avg_losses disabled no task produces a sparse
\* matrix and the reducer never reaches for the average-loss array,
\* whatever collect_rlzs is.
AvgOnlyWhenEnabled ==
    ~ oq.avg_losses => /\ ~ SparseProduced
                       /\ error # "AttributeError"

\* the tasks of the GMF branch that have run, and the chunk of one
RanOnSlice == {t \in DOMAIN yielded : tasks[t].state = "ran"}
ChunkOf(t) == read_df(yielded[t])

\* the taxonomy groups with a hazard row in the chunk df
HitTaxonomies(df) ==
    LET Hit(taxo) == GmfOf(df, AssetsOf(taxo)) # <<>>
    IN  SelectSeq(Taxonomies, Hit)

\* the keys of the event-loss accumulator that the loss records of the
\* chunk df for the loss type ln account for
RecordKeys(df, ln) ==
    LET all == [i \in DOMAIN assetcol |-> i]
        recs == get_output(all, df, ln)
        kids == KidsOf(param.K)
    IN  {<<recs[i].eid, param.K>> : i \in DOMAIN recs}
        \cup (IF Len(kids) # 0
              THEN {<<recs[i].eid, kids[recs[i].aid]>> : i \in DOMAIN recs}
              ELSE {})

\* C17: a taxonomy group without hazard row in the chunk is skipped
\* without error.  The task runs to its end; its accumulators are those
\* of the loop over the groups that have a hazard row, as if the others
\* did not exist; the event-loss accumulator has no key beyond those of
\* the chunk's loss records; and a loss type without loss record for a
\* group is skipped as well: each average-loss list holds one nonempty
\* matrix per group with records of the loss type, and no other.
GroupSkipped ==
    \A t \in RanOnSlice :
        LET df == ChunkOf(t)
            names == Range(oq.loss_names)
            none == [loss_by_EK1 |-> [ln \in names |-> <<>>],
                     loss_by_AR |-> [ln \in names |-> <<>>]]
            acc == RiskAccumulators(df, param)
            hit == HitTaxonomies(df)
            only == RiskLoop(hit, df, param, none)
            HasRecords(ln) ==
                {i \in DOMAIN hit :
                    get_output(AssetsOf(hit[i]), df, ln) # <<>>}
        IN  /\ acc = only
            /\ tasks[t].loss_by_EK1 = only.loss_by_EK1
            /\ \A ln \in names :
                  /\ Keys(acc.loss_by_EK1[ln]) = RecordKeys(df, ln)
                  /\ \A i \in DOMAIN acc.loss_by_AR[ln] :
                        acc.loss_by_AR[ln][i] # <<>>
                  /\ Len(acc.loss_by_AR[ln]) =
                        IF param.collect_rlzs \/ param.avg_losses
                        THEN Cardinality(HasRecords(ln))
                        ELSE 0

\* C17's case: a task has run on a chunk that has rows for one taxonomy
\* group and none for another, and a task has run on a chunk where a
\* group with rows has no loss record for one loss type
GroupSkippedWitness ==
    /\ \E t \in RanOnSlice :
          /\ \E taxo \in Range(Taxonomies) :
                GmfOf(ChunkOf(t), AssetsOf(taxo)) = <<>>
          /\ HitTaxonomies(ChunkOf(t)) # <<>>
          /\ \E ln \in Range(oq.loss_names) : tasks[t].loss_by_EK1[ln] # <<>>
    /\ \E u \in RanOnSlice :
          \E taxo \in Range(HitTaxonomies(ChunkOf(u))) :
             \E ln \in Range(oq.loss_names) :
                get_output(AssetsOf(taxo), ChunkOf(u), ln) = <<>>
    /\ param.avg_losses

\* post_execute is about to run and will reach the sanity check: none of
\* the three conditions of the early return holds after the scenario
\* branch has stored agg_losses-rlzs
CheckReached ==
    /\ pc = "post_execute"
    /\ oq.investigation_time = 0
    /\ oq.avg_losses
    /\ "agg_losses-rlzs" \in dsets'

NoTaskWritesParam == assigned = {}

\* the lengths of the runs of equal neighbours of the sequence s, from
\* the positions where a run starts
RunLengths(s) ==
    LET ss == SortInts({i \in DOMAIN s : i = 1 \/ s[i] # s[i - 1]})
    IN  [j \in DOMAIN ss |->
            (IF j = Len(ss) THEN Len(s) + 1 ELSE ss[j + 1]) - ss[j]]

\* the slices that the run lengths lens give for c tasks and total rows,
\* from the position (start, stop, weight)
RECURSIVE SlicesOf(_, _, _, _, _, _)
SlicesOf(lens, total, c, start, stop, weight) ==
    IF lens = <<>>
    THEN IF weight # 0 THEN <<Slice(start, stop)>> ELSE <<>>
    ELSE LET stop2 == stop + Head(lens)
             weight2 == weight + Head(lens)
         IN  IF weight2 * c > total
             THEN <<Slice(start, stop2)>>
                  \o SlicesOf(Tail(lens), total, c, stop2, stop2, 0)
             ELSE SlicesOf(Tail(lens), total, c, start, stop2, weight2)

\* C20: the partitioner is deterministic and purely positional.  The
\* slices gen_args has yielded at its end are a function of the lengths
\* of the runs of equal event ids and of concurrent_tasks alone: every
\* execution on the same ids and the same concurrent_tasks yields that
\* one sequence, and ids of other values with the same run lengths yield
\* the same slices.
PurelyPositional ==
    gen.pc = "done" =>
        /\ yielded = SlicesOf(RunLengths(eids), Len(eids), ct, 0, 0, 0)
        /\ Len(tasks) = Len(yielded)

\* C20's case: gen_args has ended with two slices or more on ids that
\* are not increasing, an id coming back after another one, with a run
\* of two rows or more
PurelyPositionalWitness ==
    /\ gen.pc = "done"
    /\ Len(yielded) >= 2
    /\ \E i, j, k \in DOMAIN eids :
          i < j /\ j < k /\ eids[i] = eids[k] /\ eids[i] # eids[j]
    /\ \E i \in DOMAIN RunLengths(eids) : RunLengths(eids)[i] >= 2

\* n > c * 2^32 bytes, for n counted in words of 4 bytes: the ceiling is
\* taken off n once per task
RECURSIVE MoreThanCeilings(_, _)
MoreThanCeilings(n, c) ==
    IF c = 0 THEN n > 0
    ELSE IF n < TWO32 THEN FALSE
    ELSE MoreThanCeilings(n - TWO32, c - 1)

\* C21: the capacity guard rule.  pre_execute ends with the 'event loss
\* table is too big' error exactly when 4 * E * L bytes divided by the
\* number of tasks (concurrent_tasks, 0 counting as 1) are strictly more
\* than 2^32 bytes; a projected size equal to the ceiling is accepted;
\* the number K of aggregation keys plays no part.
GuardRule ==
    pc # "pre_execute" =>
        LET ntasks == IF oq.concurrent_tasks = 0 THEN 1
                      ELSE oq.concurrent_tasks
        IN  GuardRejected <=>
                MoreThanCeilings(E * Len(oq.loss_names), ntasks)

\* C21's case: the guard has rejected a run with concurrent_tasks = 0
\* and aggregation keys, of 2^29 + 1 events and two loss types: 8 bytes
\* above the ceiling
GuardRuleWitness ==
    /\ GuardRejected
    /\ oq.concurrent_tasks = 0
    /\ NumKeys > 0
    /\ E = 536870913
    /\ Len(oq.loss_names) = 2

\* the guard has accepted a projected size equal to the ceiling
GuardRuleEqual ==
    /\ pc = "execute"
    /\ error = "none"
    /\ E * Len(oq.loss_names) = TWO32
    /\ ct = 1

\* the ruptures of the getter rups that the source filter keeps
NearOf(rups) ==
    LET Near(i) == ~ ruptures[i].far
    IN  SelectSeq(rups, Near)

\* C22: the two-level fan-out processes every unit exactly once.  When a
\* start_ebrisk task runs, the sub-tasks it emits and the block it
\* processes itself cut the ruptures its getter keeps into consecutive
\* nonempty blocks: every block but the last is one new ebrisk sub-task,
\* the last block is the one whose results the task yields and is no
\* sub-task, and a getter that keeps nothing gives neither.  When
\* execute returns, every task has run and the one reducer has taken
\* all results: gmf_info has one entry per kept rupture with GMF rows.
FanOutOnce ==
    /\ [][\A t \in DOMAIN tasks :
            (/\ t \notin DOMAIN yielded
             /\ tasks[t].fn = "start_ebrisk"
             /\ tasks[t].state = "submitted"
             /\ tasks'[t].state = "ran") =>
                LET near == NearOf(tasks[t].rups)
                    new == SubSeq(tasks', Len(tasks) + 1, Len(tasks'))
                IN  IF near = <<>>
                    THEN new = <<>> /\ tasks'[t].results = <<>>
                    ELSE \E k \in DOMAIN near :
                            /\ Concat([i \in DOMAIN new |-> new[i].rups])
                                  = SubSeq(near, 1, k - 1)
                            /\ \A i \in DOMAIN new :
                                  /\ new[i].rups # <<>>
                                  /\ new[i] = RupTask("ebrisk", new[i].rups)
                            /\ tasks'[t].results =
                                  EbriskOut(SubSeq(near, k, Len(near)),
                                            param').results]_vars
    /\ []((Returned /\ "gmf_data" \notin dsets) =>
            /\ \A t \in DOMAIN tasks :
                  tasks[t].state = "ran" /\ tasks[t].results = <<>>
            /\ {gmf_info[i].rup_id : i \in DOMAIN gmf_info}
                  = {r \in DOMAIN ruptures :
                        ~ ruptures[r].far /\ ruptures[r].rows # <<>>}
            /\ \A i, j \in DOMAIN gmf_info :
                  gmf_info[i].rup_id = gmf_info[j].rup_id => i = j)

\* C22's case: a start_ebrisk task has emitted a sub-task and processed
\* its last block itself, the sub-task has run, and the reducer has
\* taken the results of both
FanOutOnceWitness ==
    /\ Returned
    /\ Len(tasks) = 2
    /\ tasks[1].fn = "start_ebrisk"
    /\ tasks[2].fn = "ebrisk"
    /\ Len(gmf_info) = 2
    /\ Len(agg_loss_table["event_id"]) >= 2

\* the yields res of a task of the rupture branch whose accumulator of
\* event losses is lbe are in order: the dictionary of the average-loss
\* contributions with every loss type, then the dictionary of the tables
\* of the loss types that have entries, if any, then gmf_info
InOrder(res, lbe) ==
    LET n == Len(res)
        with == {ln \in Range(oq.loss_names) : lbe[ln] # <<>>}
    IN  /\ n \in 2..3
        /\ Len(res[1]) = Len(oq.loss_names)
        /\ \A i \in DOMAIN res[1] :
              /\ res[1][i].kind = "coos"
              /\ res[1][i].ln = oq.loss_names[i]
        /\ Len(res[n]) = 1
        /\ res[n][1].kind = "gmf_info"
        /\ res[n][1].val # <<>>
        /\ (n = 3) = (with # {})
        /\ n = 3 =>
              /\ {res[2][i].ln : i \in DOMAIN res[2]} = with
              /\ Len(res[2]) = Cardinality(with)
              /\ \A i \in DOMAIN res[2] :
                    res[2][i].kind = "df" /\ res[2][i].val # <<>>

\* the GMF rows that the ruptures rups give
GmfRowsOf(rups) == Concat([j \in DOMAIN rups |-> ruptures[rups[j]].rows])

\* C23: order and presence of a task's partial results.  When a task of
\* the rupture branch runs, it yields nothing at all or its yields are in
\* order; an ebrisk task yields nothing exactly when its ruptures gave it
\* no GMF row, and a start_ebrisk task yields nothing if the ruptures it
\* keeps gave none and something if each of them gave some.
YieldOrder ==
    [][\A t \in DOMAIN tasks :
          (/\ t \notin DOMAIN yielded
           /\ tasks[t].state = "submitted"
           /\ tasks'[t].state = "ran") =>
              LET res == tasks'[t].results
                  near == NearOf(tasks[t].rups)
              IN  /\ res # <<>> => InOrder(res, tasks'[t].loss_by_EK1)
                  /\ tasks[t].fn = "ebrisk" =>
                        ((res = <<>>) = (GmfRowsOf(tasks[t].rups) = <<>>))
                  /\ GmfRowsOf(near) = <<>> => res = <<>>
                  /\ (/\ near # <<>>
                      /\ \A j \in DOMAIN near : ruptures[near[j]].rows # <<>>)
                        => res # <<>>]_vars

\* C23's case: an ebrisk sub-task has run on a rupture with GMF rows and
\* has yielded three dictionaries, the table of one loss type only, and
\* another task has run on GMF rows that gave no loss, yielding no table
YieldOrderWitness ==
    \E t, u \in DOMAIN tasks :
        /\ t \notin DOMAIN yielded
        /\ tasks[t].fn = "ebrisk"
        /\ tasks[t].state = "ran"
        /\ Len(tasks[t].results) = 3
        /\ Len(tasks[t].results[2]) = 1
        /\ tasks[u].state = "ran"
        /\ Len(tasks[u].results) = 2

\* an ebrisk sub-task has run on a rupture without GMF rows
YieldNothing ==
    \E t \in DOMAIN tasks :
        /\ t \notin DOMAIN yielded
        /\ tasks[t].fn = "ebrisk"
        /\ tasks[t].state = "ran"
        /\ GmfRowsOf(tasks[t].rups) = <<>>

\* the items of the dictionary dic are all of one kind
AllOfKind(dic, kind) ==
    dic # <<>> /\ \A i \in DOMAIN dic : dic[i].kind = kind

\* C24: the reducer dispatches on the kind of the result.  A call of
\* agg_dicts on an empty result changes no store; on a result with
\* gmf_info it extends the gmf_info dataset and leaves agg_loss_table
\* and avg_losses alone; on a result of tables it changes agg_loss_table
\* only, every column growing by the number of rows of the result; on a
\* result of lists of sparse matrices it changes avg_losses only, and
\* only at the loss type indices of the keys that hold a matrix.
DispatchByKind ==
    [][\A t \in DOMAIN tasks :
          (/\ tasks[t].results # <<>>
           /\ tasks' = [tasks EXCEPT ![t].results = Tail(@)]) =>
              LET dic == Head(tasks[t].results)
                  nrows == SumSeq([i \in DOMAIN dic |-> Len(dic[i].val)])
              IN  /\ dic = <<>> =>
                        /\ agg_loss_table' = agg_loss_table
                        /\ avg_losses' = avg_losses
                        /\ gmf_info' = gmf_info
                  /\ AllOfKind(dic, "gmf_info") =>
                        /\ agg_loss_table' = agg_loss_table
                        /\ avg_losses' = avg_losses
                        /\ gmf_info' = gmf_info \o dic[1].val
                        /\ dic[1].val # <<>>
                  /\ AllOfKind(dic, "df") =>
                        /\ avg_losses' = avg_losses
                        /\ gmf_info' = gmf_info
                        /\ nrows > 0
                        /\ \A name \in Columns :
                              /\ Len(agg_loss_table'[name])
                                    = Len(agg_loss_table[name]) + nrows
                              /\ Len(agg_loss_table'[name])
                                    = Len(agg_loss_table'["event_id"])
                  /\ (AllOfKind(dic, "coos") /\ avg_losses.exists) =>
                        /\ agg_loss_table' = agg_loss_table
                        /\ gmf_info' = gmf_info
                        /\ \A idx \in DOMAIN avg_losses.arr :
                              avg_losses'.arr[idx] # avg_losses.arr[idx] =>
                                 \E i \in DOMAIN dic :
                                    /\ dic[i].val # <<>>
                                    /\ LossIndex(dic[i].ln) = idx[3]
                  /\ \/ dic = <<>>
                     \/ \E kind \in {"gmf_info", "df", "coos"} :
                           AllOfKind(dic, kind)]_vars

\* C24's case: the reducer has taken three results, of which a gmf_info
\* record, a table and sparse matrices of the first loss type only
DispatchByKindWitness ==
    /\ Len(tasks) = 1
    /\ tasks[1].results = <<>>
    /\ gmf_info # <<>>
    /\ agg_loss_table["event_id"] # <<>>
    /\ \E idx \in DOMAIN avg_losses.arr : avg_losses.arr[idx] > 0
    /\ \A idx \in DOMAIN avg_losses.arr :
          idx[3] # 0 => avg_losses.arr[idx] = 0

\* the reducer is about to take an empty result into a store that
\* holds rows
DispatchEmpty ==
    /\ Len(tasks) = 1
    /\ tasks[1].results # <<>>
    /\ Head(tasks[1].results) = <<>>
    /\ agg_loss_table["event_id"] # <<>>

\* every sparse matrix entry of every result still to be reduced is in
\* column 0
AllInColumn0 ==
    \A t \in DOMAIN tasks : \A i \in DOMAIN tasks[t].results :
        \A k \in DOMAIN tasks[t].results[i] :
            tasks[t].results[i][k].kind = "coos" =>
                \A m \in DOMAIN tasks[t].results[i][k].val :
                    \A e \in DOMAIN tasks[t].results[i][k].val[m] :
                        tasks[t].results[i][k].val[m][e].col = 0

ScaledSecondColumn ==
    /\ pc = "done"
    /\ oq.avg_losses
    /\ ~ param.collect_rlzs
    /\ \E idx \in DOMAIN avg_losses.arr :
          idx[2] = 1 /\ avg_losses.arr[idx].num > 0

\* C27: gen_args never yields an empty slice and never more than ct
\* slices; once it has ended, with ct = 1 and at least one row it has
\* yielded the one slice of all the rows, and with no row nothing.
SliceCount ==
    /\ \A i \in DOMAIN yielded : yielded[i].start < yielded[i].stop
    /\ Len(yielded) <= ct
    /\ gen.pc = "done" =>
          /\ (ct = 1 /\ Len(eids) > 0) =>
                yielded = <<Slice(0, Len(eids))>>
          /\ Len(eids) = 0 => yielded = <<>>

\* C27's case: gen_args has ended with as many slices as tasks asked
\* for, two, on three event groups or more
SliceCountWitness ==
    /\ gen.pc = "done"
    /\ oq.concurrent_tasks = 2
    /\ Len(yielded) = 2
    /\ Len(RunLengths(eids)) >= 3

\* gen_args has ended on one task and several event groups
SliceCountOne ==
    /\ gen.pc = "done"
    /\ ct = 1
    /\ Len(RunLengths(eids)) >= 3

\* the number of rows of the last event group of a slice: the rows at
\* its end that carry the event id of its last row
LastGroupLen(slc) ==
    Cardinality({r \in RowsOf(slc) :
                    \A k \in r..slc.stop : eids[k] = eids[slc.stop]})

\* a number of rows strictly above len(eids) / ct
AboveMax(w) == w * ct > Len(eids)

\* the slices closed inside the loop of gen_args: all of them but the
\* one the trailing `if weight` yields
ClosedInLoop(i) ==
    i < Len(yielded) \/ gen.pc # "done" \/ gen.weight = 0

\* C28: the cut rule.  A slice is closed right after the first event
\* group that takes the accumulated number of rows strictly above
\* maxweight: every slice closed in the loop weighs more than
\* maxweight and, without its last event group, at most maxweight; the
\* running weight never stays above maxweight; a slice that weighs at
\* most maxweight is the last one, yielded when the ids are exhausted.
CutRule ==
    /\ \A i \in DOMAIN yielded :
          ClosedInLoop(i) =>
              /\ AboveMax(WeightOf(yielded[i]))
              /\ ~ AboveMax(WeightOf(yielded[i]) - LastGroupLen(yielded[i]))
    /\ ~ AboveMax(gen.weight)
    /\ gen.weight = gen.stop - gen.start
    /\ \A i \in DOMAIN yielded :
          ~ AboveMax(WeightOf(yielded[i]))
              => (i = Len(yielded) /\ gen.pc = "done" /\ gen.weight # 0)

\* C28's case: a slice of several event groups was closed in the loop
\* and a lighter one was yielded at the end
CutRuleWitness ==
    /\ gen.pc = "done"
    /\ gen.weight # 0
    /\ Len(yielded) >= 2
    /\ ContiguousByEvent(eids)
    /\ Cardinality(EventsOf(yielded[1])) >= 2
    /\ ~ AboveMax(WeightOf(yielded[Len(yielded)]))

\* the loss records of the chunk of task t, told without the taxonomy
\* groups: one per hazard row of the chunk and asset with a value for
\* the loss type on the site of the row, as (row, asset) pairs
PairsOf(t, ln) ==
    {p \in RowsOf(yielded[t]) \X (DOMAIN assetcol) :
        /\ assetcol[p[2]].site_id = gmf_data[p[1]].sid
        /\ assetcol[p[2]].value[ln] > 0}

\* the loss and the variance of the record of a (row, asset) pair
PairLoss(ln) ==
    [p \in (DOMAIN gmf_data) \X (DOMAIN assetcol) |->
        assetcol[p[2]].value[ln] * gmf_data[p[1]].gmv]
PairVariance(ln) ==
    [p \in (DOMAIN gmf_data) \X (DOMAIN assetcol) |->
        (assetcol[p[2]].sd[ln] * gmf_data[p[1]].gmv)
            * (assetcol[p[2]].sd[ln] * gmf_data[p[1]].gmv)]

\* the (row, asset) pairs of event e under key k: the key of the asset,
\* or the total key K
PairsUnder(t, ln, e, k) ==
    {p \in PairsOf(t, ln) :
        /\ gmf_data[p[1]].eid = e
        /\ (k = param.K \/ assetcol[p[2]].kid = k)}

\* the tasks that ran on a slice of gmf_data
RanOnGmf == IF "gmf_data" \in dsets THEN Ran ELSE {}

\* C29: no double counting inside a task.  Every asset is in the group
\* of exactly one taxonomy, once.  For every task that ran on a slice,
\* every loss type and every entry (event, key) of its accumulator, the
\* loss (and, without asset correlation, the variance) is the sum over
\* the loss records of the chunk for that event and key, each taken
\* once, under the key of its asset and under the total key K; every
\* key with a record has an entry; and in the sparse matrices the task
\* returns when average losses are produced, the entries of an (asset,
\* realization) sum to the losses of the records of that asset and
\* realization, each taken once.
NoDoubleCounting ==
    /\ \A a \in DOMAIN assetcol :
          /\ Cardinality({i \in DOMAIN Taxonomies :
                             a \in Range(AssetsOf(Taxonomies[i]))}) = 1
          /\ \A i \in DOMAIN Taxonomies :
                Cardinality({j \in DOMAIN AssetsOf(Taxonomies[i]) :
                                AssetsOf(Taxonomies[i])[j] = a}) <= 1
    /\ \A t \in RanOnGmf : \A ln \in Range(oq.loss_names) :
          LET lbe == tasks[t].loss_by_EK1[ln]
          IN  /\ Keys(lbe) =
                    {k \in (1..MaxEid) \X (0..param.K) :
                        PairsUnder(t, ln, k[1], k[2]) # {}}
              /\ \A i, j \in DOMAIN lbe : lbe[i].k = lbe[j].k => i = j
              /\ \A k \in Keys(lbe) :
                    /\ Value(lbe, k)[1] =
                          SumOver(PairsUnder(t, ln, k[1], k[2]), PairLoss(ln))
                    /\ param.asset_correlation = 0 =>
                          Value(lbe, k)[2] =
                              SumOver(PairsUnder(t, ln, k[1], k[2]),
                                      PairVariance(ln))
    /\ \A t \in RanOnGmf :
          \A d \in DOMAIN tasks[t].results :
              \A i \in DOMAIN tasks[t].results[d] :
                  LET item == tasks[t].results[d][i]
                      Col(e) == IF param.collect_rlzs THEN 0 ELSE rlz_id(e)
                  IN  (item.kind = "coos" /\ param.avg_losses) =>
                          \A a \in DOMAIN assetcol : \A r \in 0..(R - 1) :
                              EntrySum(item.val, a, r) =
                                  SumOver({p \in PairsOf(t, item.ln) :
                                              /\ p[2] = a
                                              /\ Col(gmf_data[p[1]].eid) = r},
                                          PairLoss(item.ln))

\* C29's case: a task has run on a chunk with a hazard row on a site
\* that holds assets of two taxonomies, and another row of the same
\* event, and its sparse matrices are still to be reduced
NoDoubleCountingWitness ==
    \E t \in RanOnGmf :
        /\ param.avg_losses
        /\ \E d \in DOMAIN tasks[t].results :
              \E i \in DOMAIN tasks[t].results[d] :
                  /\ tasks[t].results[d][i].kind = "coos"
                  /\ tasks[t].results[d][i].val # <<>>
        /\ \E p, q \in PairsOf(t, "structural") :
              /\ p[1] = q[1]
              /\ assetcol[p[2]].taxonomy # assetcol[q[2]].taxonomy
        /\ \E p, q \in PairsOf(t, "structural") :
              /\ p[1] # q[1]
              /\ gmf_data[p[1]].eid = gmf_data[q[1]].eid

\* the state of a celery task is one of these, and moves along the body
\* of event_based
CeleryStates == {"running", "returned", "committed", "signalled", "raised"}

\* C26: the completion signal of the legacy task.  A completion message
\* of a task is sent in one step only, the one that takes the task from
\* committed to signalled, and carries the table do_event_based
\* returned; a task is committed only from returned, and returned only
\* from running.  A task that raised, in do_event_based or at the
\* commit, stays so, has no message in flight and none was handed to
\* task_completed_hook; no task has two messages.
SignalAfterCommit ==
    /\ [][/\ \A m \in inbox' \ inbox :
                /\ celery[m.task].state = "committed"
                /\ celery'[m.task].state = "signalled"
                /\ m.event_loss_table = celery[m.task].event_loss_table
                /\ \A n \in inbox : n.task # m.task
          /\ \A t \in DOMAIN celery :
                /\ (celery'[t].state = "signalled"
                    /\ celery[t].state # "signalled")
                      => inbox' \ inbox = {MessageOf(t)}
                /\ (celery'[t].state = "committed"
                    /\ celery[t].state # "committed")
                      => celery[t].state = "returned"
                /\ (celery'[t].state = "returned"
                    /\ celery[t].state # "returned")
                      => celery[t].state = "running"
                /\ celery[t].state = "raised"
                      => celery'[t].state = "raised"]_vars
    /\ [](\A t \in DOMAIN celery :
            /\ celery[t].state \in CeleryStates
            /\ celery[t].state # "signalled" =>
                  /\ \A m \in inbox : m.task # t
                  /\ \A i \in DOMAIN received : received[i] # t
            /\ \A i, j \in DOMAIN received :
                  received[i] = received[j] => i = j)

\* C26's case: a task raised at the end of do_event_based with losses in
\* its table, the message of the other task was handled, nothing is in
\* flight, and the calculator's table holds the other task's losses only
SignalAfterCommitWitness ==
    \E t, u \in DOMAIN celery :
        /\ celery[t].state = "raised"
        /\ celery[t].done = 2
        /\ celery[t].event_loss_table # EmptyCounter
        /\ celery[u].state = "signalled"
        /\ received = <<u>>
        /\ inbox = {}
        /\ event_loss_table = celery[u].event_loss_table
        /\ event_loss_table # EmptyCounter

\* the rupture ids of the units of the job
RuptureIds ==
    UNION {UNION {UNION {Range(units[t][i].rupture_matrix[a]) :
                            a \in DOMAIN units[t][i].rupture_matrix} :
                     i \in DOMAIN units[t]} :
              t \in DOMAIN units}

\* the tasks whose message task_completed_hook got, and the loss of
\* rupture rid in the table task t returned (a plain dict holds nothing)
ReceivedTasks == {received[i] : i \in DOMAIN received}
LossIn(rid) ==
    [t \in DOMAIN celery |->
        IF celery[t].type = "Counter"
        THEN CounterGet(celery[t].event_loss_table, rid) ELSE 0]

\* the loss ratio times the asset value, for asset a and rupture j of it
LossOfPair(unit) ==
    [p \in UNION {{<<a, j>> : j \in DOMAIN unit.rupture_matrix[a]} :
                     a \in DOMAIN unit.assets} |->
        unit.loss_matrix[p[1]][p[2]] * unit.assets[p[1]]]

\* C30: the merge of the legacy event loss tables.  Whatever the order
\* in which task_completed_hook got the messages, the calculator's
\* event_loss_table holds exactly the rupture ids whose losses, summed
\* over the tables of all messages received, are positive, each with
\* that sum; a rupture id with a sum of zero is not a key.  In
\* individual_outputs the table of a unit holds, for each rupture id of
\* the unit, the sum over the assets of loss ratio times asset value,
\* and the table a task of one unit returns holds the positive ones.
LegacyMerge ==
    /\ DOMAIN event_loss_table =
          {rid \in RuptureIds : SumOver(ReceivedTasks, LossIn(rid)) > 0}
    /\ \A rid \in DOMAIN event_loss_table :
          /\ event_loss_table[rid] = SumOver(ReceivedTasks, LossIn(rid))
          /\ event_loss_table[rid] > 0
    /\ \A t \in DOMAIN units : \A i \in DOMAIN units[t] :
          LET unit == units[t][i]
              table == individual_outputs(unit).event_loss_table
              ids == UNION {Range(unit.rupture_matrix[a]) :
                               a \in DOMAIN unit.rupture_matrix}
              PairsOfRup(rid) ==
                  {p \in DOMAIN LossOfPair(unit) :
                      unit.rupture_matrix[p[1]][p[2]] = rid}
          IN  /\ DOMAIN table = ids
              /\ \A rid \in ids :
                    table[rid] = SumOver(PairsOfRup(rid), LossOfPair(unit))
              /\ (Len(units[t]) = 1 /\ unit.assets # <<>>
                  /\ celery[t].state \in {"returned", "committed",
                                          "signalled"}) =>
                    /\ celery[t].type = "Counter"
                    /\ celery[t].event_loss_table =
                          [rid \in {r \in ids : table[r] > 0} |-> table[rid]]

\* C30's case: the messages of two tasks were handled, the second task
\* first; their tables share a rupture id, whose losses were added, and
\* a rupture id of the units without loss is not in the table
LegacyMergeWitness ==
    /\ Len(received) = 2
    /\ received[1] > received[2]
    /\ \E rid \in DOMAIN event_loss_table :
          /\ \A t \in DOMAIN celery : LossIn(rid)[t] > 0
          /\ event_loss_table[rid] = LossIn(rid)[1] + LossIn(rid)[2]
          /\ LossIn(rid)[1] # LossIn(rid)[2]
    /\ RuptureIds \ DOMAIN event_loss_table # {}

====
